---- MODULE Spec2Model ----
(***************************************************************************)
(* Model of the asynchronous request/response correlation code of the bot: *)
(*   - IRCAdmin's registry of timed mode reversals (abbott/plugins/admin.py)*)
(*   - Auth's WHOIS permission broker (twistbot/plugins/auth.py)           *)
(*   - IRCTopic's topic history and topic fetch broker (admin.py)          *)
(* Every handler runs to completion on the reactor thread, so each handler *)
(* is one action.  Time is the reactor clock in whole units; a delayed     *)
(* call runs when the clock reaches its due time.                          *)
(***************************************************************************)
EXTENDS Integers, Sequences, FiniteSets, TLC

\* ------------------------------------------------------------------ bounds
MaxCalls == 2          \* reactor.callLater calls made by IRCAdmin in a run
MaxPersisted == 1      \* entries of config['laters'] found at start-up
MaxTimeAdmin == 3      \* clock bound for the timer registry runs
MaxLifeOps == 3        \* start(), stop() and reload() calls of IRCAdmin in a run
MaxLifeCalls == 3      \* reactor.callLater calls in a run over the plugin's life
MaxTimeLife == 1       \* clock bound for the runs over the plugin's life
MaxAuthCalls == 2      \* _get_permissions calls in a run
MaxTimeAuth == 6       \* clock bound for the permission broker runs
MaxTopicCmds == 2      \* topic commands in a run
MaxTopicEvents == 2    \* irc.on_topic_updated notifications in a run
MaxTimeTopic == 11     \* clock bound for the topic runs
MaxHistoryEvents == 11 \* irc.on_topic_updated notifications in a run of the history
MaxEditCmds == 1       \* topic edit commands in a run of the edit commands
MaxUndoEvents == 3     \* irc.on_topic_updated notifications in a run with undo
MaxModCmds == 1        \* ban, quiet, unban and unquiet commands in a run
MaxTimeMod == 1        \* clock bound for the moderation runs

\* ------------------------------------------------------- program constants
MinDelay == 1          \* max(1, delay) in _set_timer
WhoisTimeout == 5      \* reactor.callLater(5, self._fail_request, hostmask)
TopicTimeout == 10     \* reactor.callLater(10, failure)
TopicCapacity == 10    \* deque(maxlen=10)

\* ------------------------------------------------------------ input sets
\* (hostmask, channel, mode) triples; each differs from the first in exactly
\* one component.
Triples == { <<"*!*@h1", "#a", "q">>, <<"*!*@h1", "#a", "b">>,
             <<"*!*@h1", "#b", "q">>, <<"*!*@h2", "#a", "q">> }
Delays == {0, 2}
PersistTimes == {0, 2}

\* hostmasks asking for permissions; two of them share a nick, so a WHOIS
\* of that nick can be answered for either
AuthHosts == {"ann!a@h1", "ann!a@h2"}
Nicks == {"ann"}
Authnames == {"acct1", "acct2"}

\* channels, topics (strings as sequences of characters) and command texts
TopicChannels == {"#a", "#b"}
Topics == { <<"a">>, <<"a", " ", "|", " ", "b">> }
Texts == { <<"c">> }

VARIABLES
    now,            \* reactor clock (time.time())
    started,        \* IRCAdmin.started
    later_timers,   \* IRCAdmin.later_timers: triple -> index into calls
    calls,          \* the reactor's delayed calls made by _set_timer
    laters,         \* IRCAdmin.config['laters'], a list of <<fire, h, c, m>>
    saved,          \* the list as last written by config.save()
    mode_requests,  \* ircop.mode requests issued through the transport
    msgs,           \* irc.do_msg events sent
    boot,           \* the plugin's life: the clock and config['laters'] when start()
                    \* last ran, whether it runs or was stopped, whether its last
                    \* start(), stop() or reload() raised, and how many there were
    authd_users,    \* Auth.authd_users: hostmask -> authname
    nick_to_hostmask, \* Auth.nick_to_hostmask: nick -> hostmask
    waiting,        \* Auth.waiting: hostmask -> set of deferreds (a defaultdict)
    auth_deferreds, \* the deferreds returned by _get_permissions, with what they got
    auth_calls,     \* the reactor's delayed _fail_request calls
    whois_sent,     \* irc.do_whois events sent
    auth_epoch,     \* per hostmask, how many waiter sets have been delivered
    topic_stack,    \* IRCTopic.topic_stack: channel -> the last topics, newest last
    topic_waiters,  \* IRCTopic.topic_waiters: channel -> set of deferreds
    topic_deferreds, \* the deferreds of _get_current_topic, with what they got
    topic_calls,    \* the reactor's delayed failure() calls
    topic_queries,  \* irc.do_topic events sent
    topic_requests, \* ircop.topic requests issued
    topic_replies,  \* event.reply() texts sent by the topic commands
    topic_events,   \* number of irc.on_topic_updated notifications delivered
    topic_current,  \* per channel, the topic of its latest notification (<<>>: none yet)
    mod_cmds,       \* the ban/quiet/unban/unquiet handlers started, with where each stands
    mod_requests,   \* ircop.kick, irc.whois and ircop.mode requests they issued
    mod_replies,    \* reply() texts they sent
    helper_call     \* a call of a helper function: its name, argument and result

adminVars == <<started, later_timers, calls, laters, saved, mode_requests, msgs>>
authVars == <<authd_users, nick_to_hostmask, waiting, auth_deferreds, auth_calls,
              whois_sent, auth_epoch>>
topicVars == <<topic_stack, topic_waiters, topic_deferreds, topic_calls, topic_queries,
               topic_requests, topic_replies, topic_events, topic_current>>
modVars == <<mod_cmds, mod_requests, mod_replies>>
vars == <<now, started, later_timers, calls, laters, saved, mode_requests, msgs, boot,
          authd_users, nick_to_hostmask, waiting, auth_deferreds, auth_calls,
          whois_sent, auth_epoch,
          topic_stack, topic_waiters, topic_deferreds, topic_calls, topic_queries,
          topic_requests, topic_replies, topic_events, topic_current,
          mod_cmds, mod_requests, mod_replies, helper_call>>

Max(a, b) == IF a >= b THEN a ELSE b

\* the orders in which a set or the values of a dict can be iterated
Orders(ids) ==
    {f \in [1..Cardinality(ids) -> ids] : \A i, j \in 1..Cardinality(ids) : i # j => f[i] # f[j]}

\* ----------------------------------------------------------- dict helpers
DictPop(d, k) == [x \in (DOMAIN d) \ {k} |-> d[x]]
DictSet(d, k, v) == [x \in (DOMAIN d) \cup {k} |-> IF x = k THEN v ELSE d[x]]

\* a delayed call still scheduled (neither called nor cancelled)
Active(cs, i) == cs[i].st = "pending"

\* A delayed call that was cancelled or has run keeps its status only.
Retire(c, st) == [c EXCEPT !.st = st, !.fire = 0, !.due = 0]

\* DelayedCall.cancel()
Cancel(cs, i) == [cs EXCEPT ![i] = Retire(cs[i], "cancelled")]

\* [item for item in config['laters'] if not (item[1] == hostmask and ...)]
FilterLaters(ls, key) ==
    SelectSeq(ls, LAMBDA item : ~(item[2] = key[1] /\ item[3] = key[2] /\ item[4] = key[3]))

HasEntry(ls, key) ==
    \E i \in 1..Len(ls) : ls[i][2] = key[1] /\ ls[i][3] = key[2] /\ ls[i][4] = key[3]

\* ----------------------------------------------------------- _set_timer
\* The registry state threaded through _set_timer: s.raised is set when the
\* call ends in an exception (cancel() of a call that is no longer active).
AdminState == [later_timers |-> later_timers, calls |-> calls,
               laters |-> laters, saved |-> saved, raised |-> FALSE]

\* _set_timer without "timer.cancel()" for the timer it replaces
set_timer_keeps_old(s, t, delay, key) ==
    LET ls1 == FilterLaters(s.laters, key)
        cs2 == Append(s.calls, [key |-> key, fire |-> t + delay,
                                due |-> t + Max(MinDelay, delay), st |-> "pending"])
        ls2 == Append(ls1, <<t + delay, key[1], key[2], key[3]>>)
    IN  [later_timers |-> DictSet(s.later_timers, key, Len(cs2)),
         calls |-> cs2, laters |-> ls2, saved |-> ls2, raised |-> FALSE]

\* _set_timer with callLater(delay, ...) instead of callLater(max(1, delay), ...)
set_timer_unclamped(s, t, delay, key) ==
    LET hit == key \in DOMAIN s.later_timers
        lt1 == IF hit THEN DictPop(s.later_timers, key) ELSE s.later_timers
        cs1 == IF hit THEN Cancel(s.calls, s.later_timers[key]) ELSE s.calls
        ls1 == FilterLaters(s.laters, key)
        cs2 == Append(cs1, [key |-> key, fire |-> t + delay,
                            due |-> t + delay, st |-> "pending"])
        ls2 == Append(ls1, <<t + delay, key[1], key[2], key[3]>>)
    IN  [later_timers |-> DictSet(lt1, key, Len(cs2)),
         calls |-> cs2, laters |-> ls2, saved |-> ls2, raised |-> FALSE]

\* _set_timer writing the clamped time, time.time() + max(1, delay), to the config
set_timer_clamps_fire(s, t, delay, key) ==
    LET hit == key \in DOMAIN s.later_timers
        lt1 == IF hit THEN DictPop(s.later_timers, key) ELSE s.later_timers
        cs1 == IF hit THEN Cancel(s.calls, s.later_timers[key]) ELSE s.calls
        ls1 == FilterLaters(s.laters, key)
        cs2 == Append(cs1, [key |-> key, fire |-> t + Max(MinDelay, delay),
                            due |-> t + Max(MinDelay, delay), st |-> "pending"])
        ls2 == Append(ls1, <<t + Max(MinDelay, delay), key[1], key[2], key[3]>>)
    IN  [later_timers |-> DictSet(lt1, key, Len(cs2)),
         calls |-> cs2, laters |-> ls2, saved |-> ls2, raised |-> FALSE]

set_timer(s, t, delay, key) ==
    LET hit    == key \in DOMAIN s.later_timers
        old    == s.later_timers[key]
        raises == hit /\ ~Active(s.calls, old)
        lt1    == IF hit THEN DictPop(s.later_timers, key) ELSE s.later_timers
        cs1    == IF hit /\ ~raises THEN Cancel(s.calls, old) ELSE s.calls
        ls1    == FilterLaters(s.laters, key)
        cs2    == Append(cs1, [key |-> key, fire |-> t + delay,
                               due |-> t + Max(MinDelay, delay), st |-> "pending"])
        ls2    == Append(ls1, <<t + delay, key[1], key[2], key[3]>>)
    IN  IF s.raised THEN s
        ELSE IF raises THEN [s EXCEPT !.later_timers = lt1, !.raised = TRUE]
        ELSE [later_timers |-> DictSet(lt1, key, Len(cs2)),
              calls |-> cs2, laters |-> ls2, saved |-> ls2, raised |-> FALSE]

\* the loop of _set_all_timers over the list read from the config
RECURSIVE set_each(_, _, _, _)
set_each(s, t, entries, i) ==
    IF i > Len(entries) THEN s
    ELSE set_each(set_timer(s, t, entries[i][1] - t,
                            <<entries[i][2], entries[i][3], entries[i][4]>>),
                  t, entries, i + 1)

\* "for timer in self.later_timers.itervalues(): timer.cancel()", the timers
\* taken in the order ord: cancel() of a call that was cancelled or has run
\* raises and ends the loop; no timer is taken out of later_timers
RECURSIVE cancel_each(_, _, _)
cancel_each(s, ord, i) ==
    IF i > Len(ord) \/ s.raised THEN s
    ELSE IF ~Active(s.calls, ord[i]) THEN [s EXCEPT !.raised = TRUE]
    ELSE cancel_each([s EXCEPT !.calls = Cancel(s.calls, ord[i])], ord, i + 1)

\* the timers registered in later_timers
TimerIds(s) == {s.later_timers[k] : k \in DOMAIN s.later_timers}

set_all_timers(s, t, ord) ==
    LET s1 == cancel_each(s, ord, 1)
    IN  IF s1.raised THEN s1 ELSE set_each(s1, t, s1.laters, 1)

\* ------------------------------------------------------ _set_timer.do_later
\* The synchronous part of do_later, run by the reactor for delayed call id:
\* del later_timers[key] (KeyError ends it), filter config['laters'], save,
\* then issue the "-mode" request.  The request records what the registry
\* held for its triple at the moment it was issued.
ModeRequest(s, t, id, key) ==
    [channel |-> key[2], mode |-> "-", letter |-> key[3], param |-> key[1],
     by |-> id, st |-> "pending",
     in_timers |-> key \in DOMAIN s.later_timers,
     in_laters |-> HasEntry(s.laters, key),
     in_saved |-> HasEntry(s.saved, key)]

\* do_later issuing the request before it removes its own entry
do_later_request_first(s, t, id) ==
    LET key == s.calls[id].key
        cs1 == [s.calls EXCEPT ![id] = Retire(s.calls[id], "called")]
        ls1 == FilterLaters(s.laters, key)
    IN  [state |-> [later_timers |-> DictPop(s.later_timers, key), calls |-> cs1,
                    laters |-> ls1, saved |-> ls1, raised |-> FALSE],
         reqs |-> <<ModeRequest(s, t, id, key)>>]

do_later(s, t, id) ==
    LET key == s.calls[id].key
        cs1 == [s.calls EXCEPT ![id] = Retire(s.calls[id], "called")]
        lt1 == DictPop(s.later_timers, key)
        ls1 == FilterLaters(s.laters, key)
        s1  == [later_timers |-> lt1, calls |-> cs1, laters |-> ls1,
                saved |-> ls1, raised |-> FALSE]
    IN  IF key \notin DOMAIN s.later_timers
        THEN [state |-> [s EXCEPT !.calls = cs1, !.raised = TRUE], reqs |-> <<>>]
        ELSE [state |-> s1, reqs |-> <<ModeRequest(s1, t, id, key)>>]

\* ------------------------------------------- on_event_irc_on_mode_change
\* the handler without the filter of config['laters']
mode_change_keeps_entry(s, set, key) ==
    LET hit == key \in DOMAIN s.later_timers
    IN  IF set \/ ~hit THEN s
        ELSE [s EXCEPT !.later_timers = DictPop(s.later_timers, key),
                       !.calls = Cancel(s.calls, s.later_timers[key])]

mode_change(s, set, key) ==
    LET hit    == key \in DOMAIN s.later_timers
        old    == s.later_timers[key]
        raises == hit /\ ~Active(s.calls, old)
        lt1    == DictPop(s.later_timers, key)
        ls1    == FilterLaters(s.laters, key)
    IN  IF set \/ ~hit THEN s
        ELSE IF raises THEN [s EXCEPT !.later_timers = lt1, !.raised = TRUE]
        ELSE [later_timers |-> lt1, calls |-> Cancel(s.calls, old),
              laters |-> ls1, saved |-> ls1, raised |-> FALSE]

\* ---------------------------------------------------------------- actions
Install(s) ==
    /\ later_timers' = s.later_timers
    /\ calls' = s.calls
    /\ laters' = s.laters
    /\ saved' = s.saved

\* IRCAdmin.start(): started = True, then _set_all_timers()
Start ==
    /\ boot.phase # "running"
    /\ boot.ops < MaxLifeOps
    /\ started' = TRUE
    /\ \E ord \in Orders(TimerIds(AdminState)) :
          LET s == set_all_timers(AdminState, now, ord)
          IN  /\ Install(s)
              /\ boot' = [at |-> now, laters |-> laters,
                          phase |-> IF s.raised THEN "failed" ELSE "running",
                          raised |-> s.raised, ops |-> boot.ops + 1]
    /\ UNCHANGED <<helper_call, modVars, now, mode_requests, msgs, authVars, topicVars>>

\* IRCAdmin.stop(): every timer of later_timers is cancelled and stays there
Stop ==
    /\ boot.phase = "running"
    /\ boot.ops < MaxLifeOps
    /\ \E ord \in Orders(TimerIds(AdminState)) :
          LET s == cancel_each(AdminState, ord, 1)
          IN  /\ Install(s)
              /\ boot' = [boot EXCEPT !.phase = "stopped", !.raised = s.raised,
                                      !.ops = @ + 1]
    /\ UNCHANGED <<helper_call, modVars, now, started, mode_requests, msgs, authVars, topicVars>>

\* IRCAdmin.reload() of a running plugin: the config is read again, then
\* "if self.started: self._set_all_timers()"
Reload ==
    /\ boot.phase = "running"
    /\ boot.ops < MaxLifeOps
    /\ \E ord \in Orders(TimerIds(AdminState)) :
          LET s0 == [AdminState EXCEPT !.laters = saved]
              s  == IF started THEN set_all_timers(s0, now, ord) ELSE s0
          IN  /\ Install(s)
              /\ boot' = [boot EXCEPT !.raised = s.raised, !.ops = @ + 1]
    /\ UNCHANGED <<helper_call, modVars, now, started, mode_requests, msgs, authVars, topicVars>>

\* the plugin has been started and not stopped: it is given commands and events
Running == started /\ boot.phase = "running"

\* a call of _set_timer(delay, hostmask, channel, mode) by a command
SetTimerUpTo(maxCalls, delay, key) ==
    /\ Running
    /\ Len(calls) < maxCalls
    /\ Install(set_timer(AdminState, now, delay, key))
    /\ UNCHANGED <<helper_call, modVars, now, started, mode_requests, msgs, boot, authVars, topicVars>>

SetTimer(delay, key) == SetTimerUpTo(MaxCalls, delay, key)

\* the reactor runs delayed call id
DoLater(id) ==
    /\ Active(calls, id)
    /\ calls[id].due <= now
    /\ LET r == do_later(AdminState, now, id)
       IN  /\ Install(r.state)
           /\ mode_requests' = mode_requests \o r.reqs
    /\ UNCHANGED <<helper_call, modVars, now, started, msgs, boot, authVars, topicVars>>

\* the irc.on_mode_change event is delivered
OnModeChange(set, key) ==
    /\ Running
    /\ Install(mode_change(AdminState, set, key))
    /\ UNCHANGED <<helper_call, modVars, now, started, mode_requests, msgs, boot, authVars, topicVars>>

\* the request issued by do_later completes; do_later resumes after its yield
\* ("except ircop.OpFailed": one irc.do_msg to the channel)
\* the except branch of do_later sending nothing
failure_msgs_silent(ms, r, req) == ms

failure_msgs(ms, r, req) ==
    Append(ms, [user |-> req.channel, req |-> r])

ModeRequestDone(r, ok) ==
    /\ mode_requests[r].st = "pending"
    /\ mode_requests' = [mode_requests EXCEPT ![r].st = IF ok THEN "ok" ELSE "failed"]
    /\ msgs' = IF ok THEN msgs ELSE failure_msgs(msgs, r, mode_requests[r])
    /\ UNCHANGED <<helper_call, modVars, now, started, later_timers, calls, laters, saved, boot, authVars, topicVars>>

\* the clock advances when no delayed call is due
Tick(maxTime) ==
    /\ now < maxTime
    /\ \A i \in 1..Len(calls) : Active(calls, i) => calls[i].due > now
    /\ \A i \in 1..Len(auth_calls) : Active(auth_calls, i) => auth_calls[i].due > now
    /\ \A i \in 1..Len(topic_calls) : Active(topic_calls, i) => topic_calls[i].due > now
    /\ now' = now + 1
    /\ UNCHANGED <<helper_call, modVars, adminVars, boot, authVars, topicVars>>

\* ------------------------------------------------------------------ Init
PersistedEntries == {<<f, k[1], k[2], k[3]>> : f \in PersistTimes, k \in Triples}

DistinctTriples(ls) ==
    \A i, j \in 1..Len(ls) :
        i # j => <<ls[i][2], ls[i][3], ls[i][4]>> # <<ls[j][2], ls[j][3], ls[j][4]>>

PersistedLists ==
    {ls \in UNION {[1..n -> PersistedEntries] : n \in 0..MaxPersisted} : DistinctTriples(ls)}

\* IRCAdmin after __init__ and the first reload(), with the list the config holds
InitAdmin(lists) ==
    /\ started = FALSE
    /\ later_timers = <<>>
    /\ calls = <<>>
    /\ laters \in lists
    /\ saved = laters
    /\ mode_requests = <<>>
    /\ msgs = <<>>
    /\ boot = [at |-> 0, laters |-> <<>>, phase |-> "new", raised |-> FALSE, ops |-> 0]
    /\ mod_cmds = <<>>
    /\ mod_requests = <<>>
    /\ mod_replies = <<>>

\* Auth after start()
InitAuth ==
    /\ authd_users = <<>>
    /\ nick_to_hostmask = <<>>
    /\ waiting = <<>>
    /\ auth_deferreds = <<>>
    /\ auth_calls = <<>>
    /\ whois_sent = <<>>
    /\ auth_epoch = [h \in AuthHosts |-> 0]

\* IRCTopic after start()
InitTopic ==
    /\ topic_stack = [c \in TopicChannels |-> <<>>]
    /\ topic_waiters = [c \in TopicChannels |-> {}]
    /\ topic_deferreds = <<>>
    /\ topic_calls = <<>>
    /\ topic_queries = <<>>
    /\ topic_requests = <<>>
    /\ topic_replies = <<>>
    /\ topic_events = 0
    /\ topic_current = [c \in TopicChannels |-> <<>>]

\* no helper function is being evaluated
NoCall == [fn |-> "none", arg |-> <<>>, done |-> TRUE, out |-> <<>>]

Init ==
    /\ now = 0
    /\ InitAdmin(PersistedLists)
    /\ InitAuth
    /\ InitTopic
    /\ helper_call = NoCall

NextAdmin ==
    \/ Start
    \/ \E d \in Delays, k \in Triples : SetTimer(d, k)
    \/ \E i \in 1..Len(calls) : DoLater(i)
    \/ \E b \in BOOLEAN, k \in Triples : OnModeChange(b, k)
    \/ \E r \in 1..Len(mode_requests), ok \in BOOLEAN : ModeRequestDone(r, ok)
    \/ Tick(MaxTimeAdmin)

SpecAdmin == Init /\ [][NextAdmin]_vars

\* the registry over the plugin's life: start, stop and reload among the
\* commands, events and timers
NextLife ==
    \/ Start
    \/ Stop
    \/ Reload
    \/ \E d \in Delays, k \in Triples : SetTimerUpTo(MaxLifeCalls, d, k)
    \/ \E i \in 1..Len(calls) : DoLater(i)
    \/ \E b \in BOOLEAN, k \in Triples : OnModeChange(b, k)
    \/ Tick(MaxTimeLife)

SpecLife == Init /\ [][NextLife]_vars

\* the other plugins, run with an IRCAdmin that has nothing persisted
InitIdle ==
    /\ now = 0
    /\ InitAdmin({<<>>})
    /\ InitAuth
    /\ InitTopic

InitIdleAdmin ==
    /\ InitIdle
    /\ helper_call = NoCall

\* ============================================================ Auth broker
\* hostmask.split("!", 1)[0]
NickOf(hostmask) ==
    CASE hostmask = "ann!a@h1" -> "ann"
      [] hostmask = "ann!a@h2" -> "ann"

\* self.permissions, a defaultdict(list) loaded from config['perms']
Permissions(authname) ==
    CASE authname = "acct1" -> <<"irc.op.ban">>
      [] OTHER -> <<>>

\* self.waiting[hostmask] of a defaultdict(set): reading a missing key adds it
WaitingGet(w, h) == IF h \in DOMAIN w THEN w[h] ELSE {}
WaitingTouch(w, h) == IF h \in DOMAIN w THEN w ELSE DictSet(w, h, {})

\* deferred.callback(value) for every deferred of the set
Deliver(ds, ids, value, by) ==
    [i \in 1..Len(ds) |->
        IF i \in ids THEN [ds[i] EXCEPT !.results = Append(@, [v |-> value, by |-> by])]
        ELSE ds[i]]

\* the branch _get_permissions takes
get_permissions_always_asks(hostmask, authd, w) ==
    IF hostmask \in DOMAIN authd THEN "cached" ELSE "whois"

\* _get_permissions testing "hostmask in self.waiting" before the cache
get_permissions_waiting_first(hostmask, authd, w) ==
    IF hostmask \in DOMAIN w THEN "attach"
    ELSE IF hostmask \in DOMAIN authd THEN "cached"
    ELSE "whois"

get_permissions_branch(hostmask, authd, w) ==
    IF hostmask \in DOMAIN authd THEN "cached"
    ELSE IF hostmask \in DOMAIN w THEN "attach"
    ELSE "whois"

\* _get_permissions(hostmask)
GetPermissions(h) ==
    /\ Len(auth_deferreds) < MaxAuthCalls
    /\ LET branch == get_permissions_branch(h, authd_users, waiting)
           id     == Len(auth_deferreds) + 1
           d      == [key |-> h, epoch |-> auth_epoch[h], cached |-> branch = "cached",
                      results |-> IF branch = "cached"
                                  THEN <<[v |-> Permissions(authd_users[h]), by |-> "cache"]>>
                                  ELSE <<>>]
       IN  /\ auth_deferreds' = Append(auth_deferreds, d)
           /\ waiting' = IF branch = "cached" THEN waiting
                         ELSE DictSet(waiting, h, WaitingGet(waiting, h) \cup {id})
           /\ whois_sent' = IF branch = "whois"
                            THEN Append(whois_sent, [nickname |-> NickOf(h), for |-> h])
                            ELSE whois_sent
           /\ auth_calls' = IF branch = "whois"
                            THEN Append(auth_calls, [key |-> h, fire |-> 0,
                                                     due |-> now + WhoisTimeout, st |-> "pending"])
                            ELSE auth_calls
    /\ UNCHANGED <<helper_call, modVars, now, adminVars, boot, topicVars, authd_users, nick_to_hostmask, auth_epoch>>

\* on_event_irc_on_unknown, command RPL_WHOISUSER
OnWhoisUser(h) ==
    /\ nick_to_hostmask' = DictSet(nick_to_hostmask, NickOf(h), h)
    /\ UNCHANGED <<helper_call, modVars, now, adminVars, boot, topicVars, authd_users, waiting, auth_deferreds,
                   auth_calls, whois_sent, auth_epoch>>

\* _check_ready(hostmask), called once authd_users[hostmask] is set
check_ready_waiting(w, h) ==
    IF WaitingGet(w, h) = {} THEN WaitingTouch(w, h) ELSE DictPop(w, h)

\* on_event_irc_on_unknown, command 330 (RPL_WHOISACCOUNT)
On330(nick, authname) ==
    /\ IF nick \notin DOMAIN nick_to_hostmask
       THEN UNCHANGED <<authVars>>
       ELSE LET h   == nick_to_hostmask[nick]
                ids == WaitingGet(waiting, h)
            IN  /\ nick_to_hostmask' = DictPop(nick_to_hostmask, nick)
                /\ authd_users' = DictSet(authd_users, h, authname)
                /\ auth_deferreds' = Deliver(auth_deferreds, ids, Permissions(authname), "reply")
                /\ waiting' = check_ready_waiting(waiting, h)
                /\ auth_epoch' = IF ids = {} THEN auth_epoch
                                 ELSE [auth_epoch EXCEPT ![h] = @ + 1]
                /\ UNCHANGED <<auth_calls, whois_sent>>
    /\ UNCHANGED <<helper_call, modVars, now, adminVars, boot, topicVars>>

\* _fail_request(hostmask), run by the reactor WhoisTimeout after the WHOIS
fail_request_keeps_set(w, h) == w

fail_request_waiting(w, h) ==
    IF WaitingGet(w, h) = {} THEN WaitingTouch(w, h) ELSE DictPop(w, h)

FailRequest(i) ==
    /\ Active(auth_calls, i)
    /\ auth_calls[i].due <= now
    /\ LET h   == auth_calls[i].key
           ids == WaitingGet(waiting, h)
       IN  /\ auth_calls' = [auth_calls EXCEPT ![i] = Retire(auth_calls[i], "called")]
           /\ auth_deferreds' = Deliver(auth_deferreds, ids, <<>>, "timeout")
           /\ waiting' = fail_request_waiting(waiting, h)
           /\ auth_epoch' = IF ids = {} THEN auth_epoch
                            ELSE [auth_epoch EXCEPT ![h] = @ + 1]
    /\ UNCHANGED <<helper_call, modVars, now, adminVars, boot, topicVars, authd_users, nick_to_hostmask, whois_sent>>

NextAuth ==
    \/ \E h \in AuthHosts : GetPermissions(h)
    \/ \E h \in AuthHosts : OnWhoisUser(h)
    \/ \E n \in Nicks, a \in Authnames : On330(n, a)
    \/ \E i \in 1..Len(auth_calls) : FailRequest(i)
    \/ Tick(MaxTimeAuth)

SpecAuth == InitIdleAdmin /\ [][NextAuth]_vars

\* =========================================================== IRCTopic
\* str.strip(), str.split("|") and " | ".join(...) on character sequences
RECURSIVE LStrip(_)
LStrip(str) == IF str # <<>> /\ Head(str) = " " THEN LStrip(Tail(str)) ELSE str

RECURSIVE RStrip(_)
RStrip(str) ==
    IF str # <<>> /\ str[Len(str)] = " " THEN RStrip(SubSeq(str, 1, Len(str) - 1)) ELSE str

Strip(str) == RStrip(LStrip(str))

RECURSIVE SplitBar(_)
SplitBar(str) ==
    IF \A i \in 1..Len(str) : str[i] # "|" THEN <<str>>
    ELSE LET k == CHOOSE i \in 1..Len(str) :
                      str[i] = "|" /\ \A j \in 1..(i - 1) : str[j] # "|"
         IN  <<SubSeq(str, 1, k - 1)>> \o SplitBar(SubSeq(str, k + 1, Len(str)))

RECURSIVE JoinBar(_)
JoinBar(parts) ==
    IF parts = <<>> THEN <<>>
    ELSE IF Len(parts) = 1 THEN parts[1]
    ELSE parts[1] \o <<" ", "|", " ">> \o JoinBar(Tail(parts))

StripAll(parts) == [i \in 1..Len(parts) |-> Strip(parts[i])]

\* topicappend.callback: the topic it asks ircop.topic to set
topicappend_topic(currenttopic, text) ==
    JoinBar(Append(StripAll(SplitBar(Strip(currenttopic))), text))

CouldNot == "Could not determine current topic"

\* "There are only %s topic parts. Remember indexes start at 0" % len(topic_parts)
IndexReply(n) ==
    CASE n = 0 -> "There are only 0 topic parts. Remember indexes start at 0"
      [] n = 1 -> "There are only 1 topic parts. Remember indexes start at 0"
      [] n = 2 -> "There are only 2 topic parts. Remember indexes start at 0"
      [] OTHER -> "There are only 3 topic parts. Remember indexes start at 0"

\* Python list indexing: parts[pos] exists for -len <= pos < len
InRange(parts, pos) == -Len(parts) <= pos /\ pos < Len(parts)
\* the 1-based place of parts[pos]
Place(parts, pos) == IF pos >= 0 THEN pos + 1 ELSE Len(parts) + pos + 1

\* list.insert(pos, text): a position beyond either end is moved to that end
list_insert(parts, pos, text) ==
    LET n == Len(parts)
        k == IF pos >= 0 THEN (IF pos > n THEN n ELSE pos)
             ELSE (IF n + pos < 0 THEN 0 ELSE n + pos)
    IN  SubSeq(parts, 1, k) \o <<text>> \o SubSeq(parts, k + 1, n)

\* del parts[pos]
list_del(parts, pos) ==
    SubSeq(parts, 1, Place(parts, pos) - 1) \o SubSeq(parts, Place(parts, pos) + 1, Len(parts))

\* the callbacks of topicappend, topicinsert, topicreplace, topicremove and
\* topicpop: the topic to set, or the count of parts for the IndexError reply
topic_edit(cmd, currenttopic, pos, text) ==
    LET parts == StripAll(SplitBar(currenttopic))
        err   == [ok |-> FALSE, topic |-> <<>>, n |-> Len(parts)]
    IN  CASE cmd = "append" -> [ok |-> TRUE, topic |-> topicappend_topic(currenttopic, text), n |-> 0]
          [] cmd = "insert" ->
                [ok |-> TRUE, topic |-> JoinBar(list_insert(parts, pos, text)), n |-> 0]
          [] cmd = "replace" ->
                IF InRange(parts, pos)
                THEN [ok |-> TRUE, n |-> 0,
                      topic |-> JoinBar([parts EXCEPT ![Place(parts, pos)] = text])]
                ELSE err
          [] cmd = "remove" ->
                IF InRange(parts, pos)
                THEN [ok |-> TRUE, topic |-> JoinBar(list_del(parts, pos)), n |-> 0]
                ELSE err
          [] cmd = "pop" ->
                IF parts # <<>>
                THEN [ok |-> TRUE, topic |-> JoinBar(list_del(parts, -1)), n |-> 0]
                ELSE err

\* what a command's deferred does when it fires: its callback issues the
\* ircop.topic request or replies about the index, its errback replies
Fired(d, id, kind, topic) ==
    LET e == topic_edit(d.cmd, topic, d.pos, d.text)
    IN  [deferred  |-> [d EXCEPT !.outcome = Append(@, kind)],
         requests  |-> IF kind = "callback" /\ e.ok
                       THEN <<[channel |-> d.channel, by |-> id, topic |-> e.topic]>>
                       ELSE <<>>,
         replies   |-> IF kind = "errback" THEN <<[by |-> id, text |-> CouldNot]>>
                       ELSE IF ~e.ok THEN <<[by |-> id, text |-> IndexReply(e.n)]>>
                       ELSE <<>>]

\* an edit command: _get_current_topic(channel), then addCallbacks
TopicCommand(maxCmds, cmd, channel, pos, text) ==
    /\ Len(topic_deferreds) < maxCmds
    /\ LET id    == Len(topic_deferreds) + 1
           stack == topic_stack[channel]
           known == stack # <<>>
           first == topic_waiters[channel] = {}
           timer == IF first THEN Len(topic_calls) + 1
                    ELSE topic_deferreds[CHOOSE x \in topic_waiters[channel] : TRUE].timer
           d     == [cmd |-> cmd, pos |-> pos,
                     channel |-> channel, text |-> text, first |-> ~known /\ first,
                     timer |-> IF known THEN 0 ELSE timer, outcome |-> <<>>]
           f     == Fired(d, id, "callback", stack[Len(stack)])
       IN  IF known
           THEN /\ topic_deferreds' = Append(topic_deferreds, f.deferred)
                /\ topic_requests' = topic_requests \o f.requests
                /\ topic_replies' = topic_replies \o f.replies
                /\ UNCHANGED <<topic_waiters, topic_calls, topic_queries>>
           ELSE /\ topic_deferreds' = Append(topic_deferreds, d)
                /\ topic_queries' = Append(topic_queries, [channel |-> channel, by |-> id])
                /\ topic_calls' = IF first
                                  THEN Append(topic_calls, [key |-> channel, fire |-> 0,
                                                            due |-> now + TopicTimeout,
                                                            st |-> "pending"])
                                  ELSE topic_calls
                /\ topic_waiters' = [topic_waiters EXCEPT ![channel] = @ \cup {id}]
                /\ UNCHANGED <<topic_requests, topic_replies>>
    /\ UNCHANGED <<helper_call, modVars, now, adminVars, boot, authVars, topic_stack, topic_events,
                   topic_current>>

\* topicappend
TopicAppend(channel, text) == TopicCommand(MaxTopicCmds, "append", channel, 0, text)

\* the push without the comparison with the current topic
topic_push_always(stack, newtopic) ==
    IF Len(stack) = TopicCapacity THEN Append(Tail(stack), newtopic)
    ELSE Append(stack, newtopic)

\* the push on a deque with no maxlen
topic_push_unbounded(stack, newtopic) ==
    IF stack # <<>> /\ stack[Len(stack)] = newtopic THEN stack
    ELSE Append(stack, newtopic)

\* on_event_irc_on_topic_updated: the push on the deque(maxlen=10)
topic_push(stack, newtopic) ==
    IF stack # <<>> /\ stack[Len(stack)] = newtopic THEN stack
    ELSE IF Len(stack) = TopicCapacity THEN Append(Tail(stack), newtopic)
    ELSE Append(stack, newtopic)

\* d.callback(newtopic) for the deferreds of the popped set, in the order
\* ord.  The first waiter's success() callback cancels the timeout; cancel()
\* of a call that already ran raises AlreadyCalled, which turns the result
\* into a failure and runs the command's errback.
RECURSIVE resolve_waiters(_, _, _, _)
resolve_waiters(st, ord, i, newtopic) ==
    IF i > Len(ord) THEN st
    ELSE LET id   == ord[i]
             d    == st.deferreds[id]
             late == d.first /\ ~Active(st.calls, d.timer)
             f    == Fired(d, id, IF late THEN "errback" ELSE "callback", newtopic)
         IN  resolve_waiters(
                 [deferreds |-> [st.deferreds EXCEPT ![id] = f.deferred],
                  calls     |-> IF d.first /\ ~late THEN Cancel(st.calls, d.timer) ELSE st.calls,
                  requests  |-> st.requests \o f.requests,
                  replies   |-> st.replies \o f.replies],
                 ord, i + 1, newtopic)

TopicUpdated(maxEvents, channel, newtopic) ==
    /\ topic_events < maxEvents
    /\ topic_events' = topic_events + 1
    /\ topic_current' = [topic_current EXCEPT ![channel] = <<newtopic>>]
    /\ topic_stack' = [topic_stack EXCEPT ![channel] = topic_push(@, newtopic)]
    /\ topic_waiters' = [topic_waiters EXCEPT ![channel] = {}]
    /\ \E ord \in Orders(topic_waiters[channel]) :
          LET st == resolve_waiters([deferreds |-> topic_deferreds, calls |-> topic_calls,
                                     requests |-> topic_requests, replies |-> topic_replies],
                                    ord, 1, newtopic)
          IN  /\ topic_deferreds' = st.deferreds
              /\ topic_calls' = st.calls
              /\ topic_requests' = st.requests
              /\ topic_replies' = st.replies
    /\ UNCHANGED <<helper_call, modVars, now, adminVars, boot, authVars, topic_queries>>

OnTopicUpdated(channel, newtopic) == TopicUpdated(MaxTopicEvents, channel, newtopic)

NoHistory == "I don't know what the topic used to be. Cannot undo =("

\* topic_undo putting the current topic back on the history
topic_undo_one_pop(stack, channel) ==
    IF Len(stack) < 2
    THEN [stack |-> stack, requests |-> <<>>, replies |-> <<[by |-> 0, text |-> NoHistory]>>]
    ELSE [stack    |-> SubSeq(stack, 1, Len(stack) - 1),
          requests |-> <<[channel |-> channel, by |-> 0, topic |-> stack[Len(stack) - 1]]>>,
          replies  |-> <<>>]

\* topic_undo asking for the topic that is current already
topic_undo_reissues_top(stack, channel) ==
    IF Len(stack) < 2
    THEN [stack |-> stack, requests |-> <<>>, replies |-> <<[by |-> 0, text |-> NoHistory]>>]
    ELSE [stack    |-> SubSeq(stack, 1, Len(stack) - 2),
          requests |-> <<[channel |-> channel, by |-> 0, topic |-> stack[Len(stack)]]>>,
          replies  |-> <<>>]

\* topic_undo: two pops of the channel's deque, the second is the new topic
topic_undo(stack, channel) ==
    IF Len(stack) < 2
    THEN [stack |-> stack, requests |-> <<>>, replies |-> <<[by |-> 0, text |-> NoHistory]>>]
    ELSE [stack    |-> SubSeq(stack, 1, Len(stack) - 2),
          requests |-> <<[channel |-> channel, by |-> 0, topic |-> stack[Len(stack) - 1]]>>,
          replies  |-> <<>>]

\* the undo commands run so far: each sent one request or one reply
Undos ==
    Cardinality({i \in 1..Len(topic_requests) : topic_requests[i].by = 0})
    + Cardinality({i \in 1..Len(topic_replies) : topic_replies[i].by = 0})

TopicUndo(channel) ==
    /\ Undos < MaxTopicCmds
    /\ LET u == topic_undo(topic_stack[channel], channel)
       IN  /\ topic_stack' = [topic_stack EXCEPT ![channel] = u.stack]
           /\ topic_requests' = topic_requests \o u.requests
           /\ topic_replies' = topic_replies \o u.replies
    /\ UNCHANGED <<helper_call, modVars, now, adminVars, boot, authVars, topic_waiters, topic_deferreds,
                   topic_calls, topic_queries, topic_events, topic_current>>

\* The reactor runs the call armed by reactor.callLater(10, failure).
\* failure is defined as failure(_) and is called with no argument: the call
\* raises TypeError before its body runs, so the waiter set stays as it is.
failure(ws, channel) == ws

TopicFailure(i) ==
    /\ Active(topic_calls, i)
    /\ topic_calls[i].due <= now
    /\ topic_calls' = [topic_calls EXCEPT ![i] = Retire(topic_calls[i], "called")]
    /\ topic_waiters' = failure(topic_waiters, topic_calls[i].key)
    /\ UNCHANGED <<helper_call, modVars, now, adminVars, boot, authVars, topic_stack, topic_deferreds,
                   topic_queries, topic_requests, topic_replies, topic_events, topic_current>>

NextTopic ==
    \/ \E c \in TopicChannels, t \in Texts : TopicAppend(c, t)
    \/ \E c \in TopicChannels, t \in Topics : OnTopicUpdated(c, t)
    \/ \E i \in 1..Len(topic_calls) : TopicFailure(i)
    \/ Tick(MaxTimeTopic)

SpecTopic == InitIdleAdmin /\ [][NextTopic]_vars

\* the topic history under notifications and undo commands
NextHistory ==
    \/ \E c \in TopicChannels, t \in Topics : TopicUpdated(MaxHistoryEvents, c, t)
    \/ \E c \in TopicChannels : TopicUndo(c)

SpecHistory == InitIdleAdmin /\ [][NextHistory]_vars

\* the edit commands, undo and notifications before any timeout is due
EditCmds == {"append", "insert", "replace", "remove", "pop"}
Positions == {-3, -1, 0, 2}

NextEdit ==
    \/ \E cmd \in EditCmds, c \in TopicChannels, pos \in Positions, t \in Texts :
           TopicCommand(MaxEditCmds, cmd, c, IF cmd \in {"append", "pop"} THEN 0 ELSE pos, t)
    \/ \E c \in TopicChannels, t \in Topics : OnTopicUpdated(c, t)
    \/ \E c \in TopicChannels : TopicUndo(c)

SpecEdit == InitIdleAdmin /\ [][NextEdit]_vars

\* notifications of three different topics among the edit commands and undo
HistoryTopics == Topics \cup { <<"b">> }

NextUndo ==
    \/ \E cmd \in EditCmds, c \in TopicChannels, pos \in Positions, t \in Texts :
           TopicCommand(MaxEditCmds, cmd, c, IF cmd \in {"append", "pop"} THEN 0 ELSE pos, t)
    \/ \E c \in TopicChannels, t \in HistoryTopics : TopicUpdated(MaxUndoEvents, c, t)
    \/ \E c \in TopicChannels : TopicUndo(c)

SpecUndo == InitIdleAdmin /\ [][NextUndo]_vars

\* ============================================ the moderation commands
\* The strings the commands handle, with their characters.
Names == {"ev", "ev!*@h1", "*!*@h1", "*!*@h2", "$a", "*", "h1", "h2"}

Chars(name) ==
    CASE name = "ev"      -> <<"e", "v">>
      [] name = "ev!*@h1" -> <<"e", "v", "!", "*", "@", "h", "1">>
      [] name = "*!*@h1"  -> <<"*", "!", "*", "@", "h", "1">>
      [] name = "*!*@h2"  -> <<"*", "!", "*", "@", "h", "2">>
      [] name = "$a"      -> <<"$", "a">>
      [] name = "*"       -> <<"*">>
      [] name = "h1"      -> <<"h", "1">>
      [] name = "h2"      -> <<"h", "2">>

FromChars(cs) == CHOOSE name \in Names : Chars(name) = cs

\* ch in name
Has(name, ch) == \E i \in 1..Len(Chars(name)) : Chars(name)[i] = ch

\* name.startswith(ch)
StartsWith(name, ch) == Chars(name) # <<>> /\ Chars(name)[1] = ch

\* name.split("!")[0]
SplitBang0(name) ==
    LET cs == Chars(name)
    IN  IF ~Has(name, "!") THEN name
        ELSE LET k == CHOOSE i \in 1..Len(cs) : cs[i] = "!" /\ \A j \in 1..(i - 1) : cs[j] # "!"
             IN  FromChars(SubSeq(cs, 1, k - 1))

\* what the commands are given: a bare nick, a hostmask with a plain nick
\* part, a hostmask with a wildcard nick part, an extended ban
Targets == {"ev", "ev!*@h1", "*!*@h1", "$a"}
WhoisHosts == {"h1", "h2"}
\* groupdict['duration'] after parse_time: <<>> is None (no duration given)
Durations == {<<>>, <<0>>, <<1>>}
ModChannel == "#a"

\* _nick_to_hostmask: the test that returns its argument as it is
looks_like_mask(nick) == (Has(nick, "!") /\ Has(nick, "@")) \/ StartsWith(nick, "$")

\* _nick_to_hostmask: the mask built from RPL_WHOISUSER
whois_mask(host) == FromChars(<<"*", "!", "*", "@">> \o Chars(host))

\* ban: the value of nick after the tests that decide do_kick
ban_nick(nick) ==
    IF Has(nick, "@") /\ Has(nick, "!") /\ ~Has(nick, "$") THEN SplitBang0(nick) ELSE nick

ban_do_kick(nick) ==
    IF Has(nick, "@") /\ Has(nick, "!") /\ ~Has(nick, "$")
    THEN ~Has(SplitBang0(nick), "*")
    ELSE ~Has(nick, "@") /\ ~Has(nick, "!") /\ ~Has(nick, "$")

\* reply() texts
NoSuchNickSet == "There is no user by that nick on the network. Try nick!*@* ..."
NoSuchNickUnset == "There is no user by than nick on the network. Check the username ..."
WhoisFailed == "That's odd, the whois I did didn't work. Sorry."
OpFailedText == "str(OpFailed)"
ShallBeDone == "It shall be done"

\* the state the handlers work on
ModState == [cmds |-> mod_cmds, requests |-> mod_requests, replies |-> mod_replies,
             admin |-> AdminState]

\* self.transport.issue_request(name, ...) by handler id
issue_request(m, id, name, sign, param) ==
    [m EXCEPT !.requests = Append(@, [name |-> name, by |-> id, sign |-> sign,
                                      letter |-> m.cmds[id].mode, param |-> param,
                                      st |-> "pending"])]

reply(m, id, text) == [m EXCEPT !.replies = Append(@, [by |-> id, text |-> text])]

\* _do_moderequest once the mask is known: the "+mode" request, then the yield
do_moderequest_masked(m, t, id, mask) ==
    LET m1 == [m EXCEPT !.cmds[id].mask = mask, !.cmds[id].pc = "mode"]
    IN  issue_request(m1, id, "ircop.mode", "+", mask)

\* _do_modederequest arming its timer beside the one the triple already has
do_modederequest_keeps_old(m, t, id, mask) ==
    LET c  == m.cmds[id]
        m1 == [m EXCEPT !.cmds[id].mask = mask, !.cmds[id].pc = "done"]
        a1 == set_timer_keeps_old(m.admin, t, c.duration[1], <<mask, ModChannel, c.mode>>)
    IN  IF c.duration # <<>>
        THEN reply([m1 EXCEPT !.admin = a1, !.cmds[id].timer = Len(a1.calls)],
                   id, ShallBeDone)
        ELSE issue_request(m1, id, "ircop.mode", "-", mask)

\* _do_modederequest once the mask is known
do_modederequest_masked(m, t, id, mask) ==
    LET c  == m.cmds[id]
        m1 == [m EXCEPT !.cmds[id].mask = mask, !.cmds[id].pc = "done"]
        a1 == set_timer(m.admin, t, c.duration[1], <<mask, ModChannel, c.mode>>)
    IN  IF c.duration # <<>>
        THEN reply([m1 EXCEPT !.admin = a1, !.cmds[id].timer = Len(a1.calls)],
                   id, ShallBeDone)
        ELSE issue_request(m1, id, "ircop.mode", "-", mask)

\* the handler arrives at "mask = (yield self._nick_to_hostmask(nick))"
resolve(m, t, id) ==
    LET c == m.cmds[id]
    IN  IF looks_like_mask(c.nick)
        THEN IF c.set THEN do_moderequest_masked(m, t, id, c.nick)
             ELSE do_modederequest_masked(m, t, id, c.nick)
        ELSE issue_request([m EXCEPT !.cmds[id].pc = "whois"], id, "irc.whois", "", c.nick)

\* the WHOIS failed and the handler goes on to the mode request all the same
whois_failed_goes_on(m, t, id, err) ==
    LET c  == m.cmds[id]
        m1 == reply(m, id, IF err = "WhoisTimedout" THEN WhoisFailed
                           ELSE IF c.set THEN NoSuchNickSet ELSE NoSuchNickUnset)
    IN  IF c.set THEN do_moderequest_masked(m1, t, id, c.nick)
        ELSE do_modederequest_masked(m1, t, id, c.nick)

\* except ircutil.NoSuchNick / except ircutil.WhoisTimedout: reply and return
whois_failed(m, t, id, err) ==
    LET c  == m.cmds[id]
        m1 == [m EXCEPT !.cmds[id].pc = "done"]
    IN  reply(m1, id, IF err = "WhoisTimedout" THEN WhoisFailed
                      ELSE IF c.set THEN NoSuchNickSet ELSE NoSuchNickUnset)

\* _do_moderequest arming the timer whatever the request's outcome
do_moderequest_done_always_arms(m, t, id, ok) ==
    LET c  == m.cmds[id]
        m1 == [m EXCEPT !.cmds[id].pc = "done"]
        a1 == set_timer(m.admin, t, c.duration[1], <<c.mask, ModChannel, c.mode>>)
        m2 == IF ok THEN m1 ELSE reply(m1, id, OpFailedText)
    IN  IF c.duration # <<>>
        THEN [m2 EXCEPT !.admin = a1, !.cmds[id].timer = Len(a1.calls)]
        ELSE m2

\* _do_moderequest after the yield of the "+mode" request
do_moderequest_done(m, t, id, ok) ==
    LET c  == m.cmds[id]
        m1 == [m EXCEPT !.cmds[id].pc = "done"]
        a1 == set_timer(m.admin, t, c.duration[1], <<c.mask, ModChannel, c.mode>>)
    IN  IF ~ok THEN reply(m1, id, OpFailedText)
        ELSE IF c.duration # <<>>
        THEN [m1 EXCEPT !.admin = a1, !.cmds[id].timer = Len(a1.calls)]
        ELSE m1

\* ban going straight to the mode request
ban_without_kick(m, t, id) == resolve(m, t, id)

\* ban: the kick request and its yield, or _do_moderequest at once
ban(m, t, id) ==
    LET c == m.cmds[id]
    IN  IF ban_do_kick(c.target)
        THEN issue_request([m EXCEPT !.cmds[id].pc = "kick"], id, "ircop.kick", "", c.nick)
        ELSE resolve(m, t, id)

\* ban after the yield of the kick request: OpFailed is not caught there
ban_kicked(m, t, id, ok) ==
    IF ok THEN resolve(m, t, id) ELSE [m EXCEPT !.cmds[id].pc = "unhandled"]

InstallMod(m) ==
    /\ mod_cmds' = m.cmds
    /\ mod_requests' = m.requests
    /\ mod_replies' = m.replies
    /\ Install(m.admin)

ModCmds == {"ban", "quiet", "unban", "unquiet"}

\* a ban, quiet, unban or unquiet command arrives for ModChannel
ModCommand(cmd, target, duration) ==
    /\ started
    /\ Len(mod_cmds) < MaxModCmds
    /\ LET id == Len(mod_cmds) + 1
           c  == [cmd |-> cmd, set |-> cmd \in {"ban", "quiet"},
                  mode |-> IF cmd \in {"ban", "unban"} THEN "b" ELSE "q",
                  target |-> target,
                  nick |-> IF cmd = "ban" THEN ban_nick(target) ELSE target,
                  duration |-> duration, pc |-> "start", mask |-> "", timer |-> 0]
           m  == [ModState EXCEPT !.cmds = Append(@, c)]
       IN  InstallMod(IF cmd = "ban" THEN ban(m, now, id) ELSE resolve(m, now, id))
    /\ UNCHANGED <<helper_call, now, started, mode_requests, msgs, boot, authVars, topicVars>>

\* the ircop.kick request of a ban completes
KickDone(r, ok) ==
    /\ mod_requests[r].name = "ircop.kick"
    /\ mod_requests[r].st = "pending"
    /\ LET m == [ModState EXCEPT !.requests[r].st = IF ok THEN "ok" ELSE "OpFailed"]
       IN  InstallMod(ban_kicked(m, now, mod_requests[r].by, ok))
    /\ UNCHANGED <<helper_call, now, started, mode_requests, msgs, boot, authVars, topicVars>>

WhoisErrors == {"NoSuchNick", "WhoisTimedout"}

\* the irc.whois request completes: with the host of RPL_WHOISUSER, or with
\* ircutil.NoSuchNick or ircutil.WhoisTimedout
WhoisDone(r, outcome) ==
    /\ mod_requests[r].name = "irc.whois"
    /\ mod_requests[r].st = "pending"
    /\ LET id == mod_requests[r].by
           m  == [ModState EXCEPT !.requests[r].st = outcome]
       IN  InstallMod(IF outcome \in WhoisErrors THEN whois_failed(m, now, id, outcome)
                      ELSE IF mod_cmds[id].set
                      THEN do_moderequest_masked(m, now, id, whois_mask(outcome))
                      ELSE do_modederequest_masked(m, now, id, whois_mask(outcome)))
    /\ UNCHANGED <<helper_call, now, started, mode_requests, msgs, boot, authVars, topicVars>>

\* an ircop.mode request of a command completes; _do_moderequest waits for
\* it, _do_modederequest does not
ModeDone(r, ok) ==
    /\ mod_requests[r].name = "ircop.mode"
    /\ mod_requests[r].st = "pending"
    /\ LET id == mod_requests[r].by
           m  == [ModState EXCEPT !.requests[r].st = IF ok THEN "ok" ELSE "OpFailed"]
       IN  InstallMod(IF mod_requests[r].sign = "+" THEN do_moderequest_done(m, now, id, ok)
                      ELSE m)
    /\ UNCHANGED <<helper_call, now, started, mode_requests, msgs, boot, authVars, topicVars>>

\* (an irc.on_mode_change for a triple with no timer changes nothing, so the
\* event is delivered for the triples that have one)
NextMod ==
    \/ Start
    \/ \E cmd \in ModCmds, tg \in Targets, d \in Durations : ModCommand(cmd, tg, d)
    \/ \E r \in 1..Len(mod_requests), ok \in BOOLEAN : KickDone(r, ok)
    \/ \E r \in 1..Len(mod_requests), o \in WhoisHosts \cup WhoisErrors : WhoisDone(r, o)
    \/ \E r \in 1..Len(mod_requests), ok \in BOOLEAN : ModeDone(r, ok)
    \/ \E i \in 1..Len(calls) : DoLater(i)
    \/ \E k \in DOMAIN later_timers : OnModeChange(FALSE, k)
    \/ Tick(MaxTimeMod)

SpecMod == InitIdleAdmin /\ [][NextMod]_vars

\* unban and unquiet in a plugin started with the reversal its config holds:
\* of a nick resolved by WHOIS and of a hostmask, in the channel of the
\* persisted ban or quiet
UnsetCmds == {"unban", "unquiet"}
UnsetTargets == {"ev", "*!*@h1"}
UnsetLists ==
    {<<>>} \cup {<<e>> : e \in {p \in PersistedEntries : p[3] = ModChannel}}

NextUnset ==
    \/ Start
    \/ \E cmd \in UnsetCmds, tg \in UnsetTargets, d \in Durations : ModCommand(cmd, tg, d)
    \/ \E r \in 1..Len(mod_requests), o \in WhoisHosts \cup WhoisErrors : WhoisDone(r, o)
    \/ \E i \in 1..Len(calls) : DoLater(i)
    \/ Tick(MaxTimeAdmin)

InitUnset ==
    /\ now = 0
    /\ InitAdmin(UnsetLists)
    /\ InitAuth
    /\ InitTopic
    /\ helper_call = NoCall

SpecUnset == InitUnset /\ [][NextUnset]_vars

\* ------------------------------------------------- the three plugins together
\* ===================================================== the timer registry
KeyOf(item) == <<item[2], item[3], item[4]>>
CallsFor(key) == {i \in 1..Len(calls) : calls[i].key = key}
EntriesFor(key) == {i \in 1..Len(laters) : KeyOf(laters[i]) = key}
Latest(ids) == CHOOSE i \in ids : \A j \in ids : j <= i

\* the registry holds one timer and one entry per triple, those of the latest call
C1_Registry ==
    started =>
    \A key \in Triples :
        LET live == {i \in CallsFor(key) : Active(calls, i)}
        IN  /\ Cardinality(live) <= 1
            /\ Cardinality(EntriesFor(key)) <= 1
            /\ \A i \in live : i = Latest(CallsFor(key)) /\ key \in DOMAIN later_timers
            /\ key \in DOMAIN later_timers =>
                   later_timers[key] = Latest(CallsFor(key))
            /\ \A e \in EntriesFor(key) :
                   /\ live # {}
                   /\ laters[e][1] = calls[Latest(CallsFor(key))].fire

\* a delayed call that runs is the latest one armed for its triple
C1_RunsMostRecent ==
    \A i \in 1..Len(calls) :
        (calls[i].st # "called" /\ calls'[i].st = "called")
            => (Active(calls, i) /\ i = Latest(CallsFor(calls[i].key)))

\* C1: after any sequence of _set_timer calls for one triple, interleaved
\* with fires and cancellations, at most one timer and at most one
\* config['laters'] entry exist for the triple, both those of the most recent
\* call, and a delayed call that runs is always the most recent one armed for
\* its triple (the callback of a replaced call never runs).
C1_OnlyMostRecentSurvives == [](C1_Registry) /\ [][C1_RunsMostRecent]_vars

C1_Witness ==
    \E i, j \in 1..Len(calls) :
        /\ i < j /\ calls[i].key = calls[j].key
        /\ calls[i].st = "cancelled" /\ Active(calls, j)
        /\ later_timers[calls[j].key] = j

\* what the handler leaves behind for a triple whose timer was pending
C7_Cancelled(key) ==
    /\ calls'[later_timers[key]].st = "cancelled"
    /\ key \notin DOMAIN later_timers'
    /\ ~HasEntry(laters', key)
    /\ saved' = laters'
    /\ mode_requests' = mode_requests
    /\ \A i \in CallsFor(key) : ~Active(calls', i)

\* a request is issued only by the pending timer registered for its triple
C7_RequestNeedsTimer ==
    Len(mode_requests') > Len(mode_requests) =>
        LET req == mode_requests'[Len(mode_requests')]
            key == <<req.param, req.channel, req.letter>>
        IN  /\ key \in DOMAIN later_timers
            /\ later_timers[key] = req.by
            /\ Active(calls, req.by)

\* C7: a mode-change notification with set == False for a triple with a
\* pending timer cancels the timer, removes the triple from later_timers and
\* from config['laters'], saves the config and issues nothing; and a "-mode"
\* request is only ever issued for a triple whose timer is registered and
\* pending at that moment, so none follows until a new timer is scheduled.
C7_EarlyCancel ==
    [][ /\ \A key \in Triples :
             ( /\ key \in DOMAIN later_timers
               /\ Active(calls, later_timers[key])
               /\ OnModeChange(FALSE, key) ) => C7_Cancelled(key)
        /\ C7_RequestNeedsTimer ]_vars

C7_Witness ==
    \E i \in 1..Len(calls) :
        /\ calls[i].st = "cancelled"
        /\ \A j \in CallsFor(calls[i].key) : j <= i
        /\ calls[i].key \notin DOMAIN later_timers
        /\ ~HasEntry(saved, calls[i].key)

\* the registry right after start(), against the list it read
C8_Restored ==
    /\ Len(laters') = Len(laters)
    /\ \A e \in 1..Len(laters) :
          LET key  == KeyOf(laters[e])
              live == {i \in 1..Len(calls') : calls'[i].key = key /\ Active(calls', i)}
          IN  /\ Cardinality(live) = 1
              /\ \A i \in live :
                    /\ calls'[i].due = Max(laters[e][1], now + 1)
                    /\ later_timers'[key] = i
              /\ \E f \in 1..Len(laters') : laters'[f] = laters[e]
              /\ \E f \in 1..Len(saved') : saved'[f] = laters[e]

C9_FireRemovesThenRequests ==
    /\ \A r \in 1..Len(mode_requests) :
          /\ ~mode_requests[r].in_timers
          /\ ~mode_requests[r].in_laters
          /\ ~mode_requests[r].in_saved
          /\ mode_requests[r].mode = "-"
          /\ calls[mode_requests[r].by].st = "called"
          /\ calls[mode_requests[r].by].key =
                <<mode_requests[r].param, mode_requests[r].channel, mode_requests[r].letter>>
    /\ \A i \in 1..Len(calls) :
          Cardinality({r \in 1..Len(mode_requests) : mode_requests[r].by = i})
              = IF calls[i].st = "called" THEN 1 ELSE 0

C9_Witness ==
    \E r \in 1..Len(mode_requests) :
        calls[mode_requests[r].by].st = "called" /\ ~HasEntry(laters, calls[mode_requests[r].by].key)

\* one irc.do_msg per failed request, none otherwise
C10_Reported ==
    \A r \in 1..Len(mode_requests) :
        Cardinality({i \in 1..Len(msgs) : msgs[i].req = r /\ msgs[i].user = mode_requests[r].channel})
            = IF mode_requests[r].st = "failed" THEN 1 ELSE 0

\* the step that handles the failure touches nothing but msgs
C10_NoRetry ==
    \A r \in 1..Len(mode_requests) :
        (mode_requests[r].st = "pending" /\ mode_requests'[r].st = "failed") =>
            /\ Len(msgs') = Len(msgs) + 1
            /\ Len(mode_requests') = Len(mode_requests)
            /\ calls' = calls
            /\ later_timers' = later_timers
            /\ laters' = laters
            /\ saved' = saved

\* C10: when the "-mode" request of a fired timer fails with OpFailed, one
\* irc.do_msg goes to the channel, no request is issued again, no timer is
\* scheduled and later_timers and config['laters'] stay as they are.
C10_FailureReportedOnce == [](C10_Reported /\ Len(msgs) <= Len(mode_requests)) /\ [][C10_NoRetry]_vars

C10_Witness ==
    \E r \in 1..Len(mode_requests) :
        mode_requests[r].st = "failed" /\ Len(msgs) >= 1

\* ===================================================== the permission broker
WhoisFor(h) == {i \in 1..Len(whois_sent) : whois_sent[i].for = h}
TimeoutsFor(h) == {i \in 1..Len(auth_calls) : auth_calls[i].key = h}
\* the waiter sets opened so far for h: those delivered, and the pending one
Batches(h) == auth_epoch[h] + (IF WaitingGet(waiting, h) # {} THEN 1 ELSE 0)
Asked(h) == {i \in 1..Len(auth_deferreds) : auth_deferreds[i].key = h /\ ~auth_deferreds[i].cached}

\* one WHOIS and one timeout per waiter set; one shared result per set
C2_OneWhois ==
    \A h \in AuthHosts :
        /\ Cardinality(WhoisFor(h)) = Batches(h)
        /\ Cardinality(TimeoutsFor(h)) = Batches(h)
        /\ \A i \in WhoisFor(h) : whois_sent[i].nickname = NickOf(h)
        /\ WaitingGet(waiting, h) # {} =>
              Cardinality({i \in TimeoutsFor(h) : Active(auth_calls, i)}) = 1
        /\ \A d \in Asked(h) :
              /\ Len(auth_deferreds[d].results) <= 1
              /\ (auth_deferreds[d].results = <<>>) <=> (d \in WaitingGet(waiting, h))
        /\ \A d, e \in Asked(h) :
              auth_deferreds[d].epoch = auth_deferreds[e].epoch
                  => auth_deferreds[d].results = auth_deferreds[e].results

\* the value a waiter receives, at the step that delivers it
C2_Value ==
    \A d \in 1..Len(auth_deferreds) :
        (auth_deferreds[d].results = <<>> /\ auth_deferreds'[d].results # <<>>) =>
            LET h == auth_deferreds[d].key
                r == auth_deferreds'[d].results[1]
            IN  /\ r.by = "reply" =>
                      /\ h \in DOMAIN authd_users'
                      /\ r.v = Permissions(authd_users'[h])
                      /\ \E i \in TimeoutsFor(h) : Active(auth_calls', i)
                /\ r.by = "timeout" =>
                      /\ r.v = <<>>
                      /\ h \notin DOMAIN authd_users'
                      /\ \A i \in TimeoutsFor(h) : ~Active(auth_calls', i)

\* C2: the _get_permissions calls made for one hostmask while it is neither
\* cached nor resolved share one irc.do_whois and one armed timeout, and all
\* of them receive the same value, once: the account's permissions when the
\* 330 reply comes while the timeout is still armed, the empty list otherwise.
C2_SharedResolution == [](C2_OneWhois) /\ [][C2_Value]_vars

C2_Witness ==
    \E d, e \in 1..Len(auth_deferreds) :
        /\ d # e
        /\ auth_deferreds[d].key = auth_deferreds[e].key
        /\ auth_deferreds[d].results # <<>>
        /\ auth_deferreds[d].results[1].by = "reply"
        /\ auth_deferreds[d].results[1].v # <<>>
        /\ auth_deferreds[e].results = auth_deferreds[d].results
        /\ Cardinality(WhoisFor(auth_deferreds[d].key)) = 1

\* the timeout armed with the WHOIS
C5_Armed(h) ==
    Len(whois_sent') > Len(whois_sent) =>
        /\ Len(auth_calls') = Len(auth_calls) + 1
        /\ auth_calls'[Len(auth_calls')].key = h
        /\ auth_calls'[Len(auth_calls')].due = now + WhoisTimeout

\* what _fail_request does to the waiters of its hostmask
C5_Failed(i) ==
    LET h   == auth_calls[i].key
        ids == WaitingGet(waiting, h)
    IN  /\ now = auth_calls[i].due
        /\ ids # {} =>
              /\ \A d \in ids :
                    /\ auth_deferreds[d].results = <<>>
                    /\ auth_deferreds'[d].results = <<[v |-> <<>>, by |-> "timeout"]>>
              /\ h \notin DOMAIN waiting'
              /\ h \notin DOMAIN authd_users'
        /\ authd_users' = authd_users
        /\ \A d \in (1..Len(auth_deferreds)) \ ids :
              auth_deferreds'[d] = auth_deferreds[d]

\* a call for a hostmask with no cache entry and no waiters sends a WHOIS
C5_Fresh(h) ==
    (h \notin DOMAIN authd_users /\ WaitingGet(waiting, h) = {}) =>
        /\ Len(whois_sent') = Len(whois_sent) + 1
        /\ whois_sent'[Len(whois_sent')].for = h

\* C5: the timeout is armed WhoisTimeout units after the WHOIS; when it runs
\* with waiters still pending, every waiter gets the empty list, once, the
\* waiter set is removed and authd_users is untouched, so that a later
\* _get_permissions for the hostmask sends a fresh WHOIS.
C5_TimeoutFails ==
    [][ /\ \A i \in 1..Len(auth_calls) : FailRequest(i) => C5_Failed(i)
        /\ \A h \in AuthHosts : GetPermissions(h) => (C5_Armed(h) /\ C5_Fresh(h)) ]_vars

C5_Witness ==
    \E d, e \in 1..Len(auth_deferreds) :
        /\ d < e
        /\ auth_deferreds[d].key = auth_deferreds[e].key
        /\ auth_deferreds[d].results = <<[v |-> <<>>, by |-> "timeout"]>>
        /\ ~auth_deferreds[e].cached
        /\ auth_deferreds[e].epoch > auth_deferreds[d].epoch
        /\ Cardinality(WhoisFor(auth_deferreds[d].key)) = 2

\* ========================================================= the topic broker
PendingQueries(c) ==
    {q \in 1..Len(topic_queries) :
        topic_queries[q].channel = c /\ topic_queries[q].by \in topic_waiters[c]}

\* C3: a _get_current_topic call made while a topic query for the channel is
\* pending joins the waiter set and sends no second irc.do_topic: at most one
\* query is outstanding per channel.
C3_OneTopicQuery ==
    \A c \in TopicChannels :
        /\ Cardinality(PendingQueries(c)) <= 1
        /\ \A d \in 1..Len(topic_deferreds) :
              (topic_deferreds[d].channel = c /\ topic_deferreds[d].outcome = <<>>)
                  => d \in topic_waiters[c]

\* exactly-once delivery in Auth.waiting
C4_AuthOnce ==
    \A d \in 1..Len(auth_deferreds) :
        /\ Len(auth_deferreds[d].results) <= 1
        /\ (\A i \in TimeoutsFor(auth_deferreds[d].key) : ~Active(auth_calls, i))
              => Len(auth_deferreds[d].results) = 1

\* exactly-once delivery in IRCTopic.topic_waiters
C4_TopicOnce ==
    \A d \in 1..Len(topic_deferreds) :
        /\ Len(topic_deferreds[d].outcome) <= 1
        /\ (topic_deferreds[d].timer = 0 \/ ~Active(topic_calls, topic_deferreds[d].timer))
              => Len(topic_deferreds[d].outcome) = 1

\* C4: in both brokers every waiter is fired exactly once: never twice, and
\* never zero times once the timeout that covers it is no longer armed.
C4_ExactlyOnce == C4_AuthOnce /\ C4_TopicOnce

\* C6: once the timeout of a topic query has run (no notification came for
\* TopicTimeout units), every waiter it covers has had its errback fired
\* once, is out of the waiter set, has replied "Could not determine current
\* topic" and has issued no topic-change request.
C6_TopicTimeoutReported ==
    \A d \in 1..Len(topic_deferreds) :
        (topic_deferreds[d].timer # 0 /\ topic_calls[topic_deferreds[d].timer].st = "called") =>
            /\ topic_deferreds[d].outcome = <<"errback">>
            /\ d \notin topic_waiters[topic_deferreds[d].channel]
            /\ Cardinality({r \in 1..Len(topic_replies) :
                               topic_replies[r].by = d /\ topic_replies[r].text = CouldNot}) = 1
            /\ \A r \in 1..Len(topic_requests) : topic_requests[r].by # d

\* ================================================ the moderation commands
\* the requests of a name that handler id issued
ReqsBy(id, name) ==
    {r \in 1..Len(mod_requests) : mod_requests[r].by = id /\ mod_requests[r].name = name}
RepliesBy(id) == {i \in 1..Len(mod_replies) : mod_replies[i].by = id}
SetCmds == {id \in 1..Len(mod_cmds) : mod_cmds[id].set}

\* a ban or quiet has armed a timer exactly when a duration was given and its
\* "+mode" request has succeeded
C11_Iff ==
    \A id \in SetCmds :
        mod_cmds[id].timer # 0 <=>
            /\ mod_cmds[id].duration # <<>>
            /\ \E r \in ReqsBy(id, "ircop.mode") :
                   mod_requests[r].sign = "+" /\ mod_requests[r].st = "ok"

\* a failed "+mode" request has produced one reply, the failure text
C11_Failed ==
    \A id \in SetCmds : \A r \in ReqsBy(id, "ircop.mode") :
        mod_requests[r].st = "OpFailed" =>
            /\ mod_cmds[id].timer = 0
            /\ Cardinality(RepliesBy(id)) = 1
            /\ \A i \in RepliesBy(id) : mod_replies[i].text = OpFailedText

\* the step in which a "+mode" request fails leaves the registry as it was
C11_FailKeeps ==
    \A r \in 1..Len(mod_requests) :
        (/\ mod_requests[r].name = "ircop.mode"
         /\ mod_requests[r].sign = "+"
         /\ mod_requests[r].st = "pending"
         /\ mod_requests'[r].st = "OpFailed")
        => /\ later_timers' = later_timers
           /\ laters' = laters
           /\ calls' = calls

\* C11: _do_moderequest registers a reversal timer if and only if the "+mode"
\* request succeeded and a duration was given; a failed request gives one
\* reply with the failure text and leaves later_timers and config['laters']
\* unchanged; a successful request without duration registers nothing.
C11_TimerIffSuccess == [](C11_Iff /\ C11_Failed) /\ [][C11_FailKeeps]_vars

C11_Witness ==
    \E id \in SetCmds :
        /\ mod_cmds[id].timer # 0
        /\ mod_cmds[id].duration = <<0>>
        /\ <<mod_cmds[id].mask, ModChannel, mod_cmds[id].mode>> \in DOMAIN later_timers

\* the targets the ban command is to kick: a bare nick, or a hostmask whose
\* nick part has no wildcard; and those it is not to kick
C12_Kickable(target) ==
    \/ ~Has(target, "!") /\ ~Has(target, "@") /\ ~StartsWith(target, "$")
    \/ /\ Has(target, "!") /\ Has(target, "@") /\ ~StartsWith(target, "$")
       /\ ~Has(SplitBang0(target), "*")
C12_Unkickable(target) ==
    \/ StartsWith(target, "$")
    \/ Has(target, "!") /\ Has(target, "@") /\ Has(SplitBang0(target), "*")

BanCmds == {id \in 1..Len(mod_cmds) : mod_cmds[id].cmd = "ban"}
PlusReqs(id) == {r \in ReqsBy(id, "ircop.mode") : mod_requests[r].sign = "+"}
\* the "-mode" requests issued by the timer a handler armed
MinusReqs(id) ==
    {q \in 1..Len(mode_requests) : mod_cmds[id].timer # 0 /\ mode_requests[q].by = mod_cmds[id].timer}

\* kick, then +b, then -b for the mask of the +b, and no kick for the others
C12_Order ==
    \A id \in BanCmds :
        /\ C12_Kickable(mod_cmds[id].target) =>
              /\ \A r \in PlusReqs(id) : \E k \in ReqsBy(id, "ircop.kick") : k < r
              /\ Cardinality(ReqsBy(id, "ircop.kick")) = 1
        /\ C12_Unkickable(mod_cmds[id].target) => ReqsBy(id, "ircop.kick") = {}
        /\ \A q \in MinusReqs(id) :
              /\ mode_requests[q].letter = "b"
              /\ mode_requests[q].mode = "-"
              /\ \E r \in PlusReqs(id) :
                     mod_requests[r].st = "ok" /\ mod_requests[r].param = mode_requests[q].param
        /\ (mod_cmds[id].timer # 0 /\ calls[mod_cmds[id].timer].st = "called")
              => Cardinality(MinusReqs(id)) = 1
        /\ (mod_cmds[id].timer # 0 /\ Active(calls, mod_cmds[id].timer))
              => calls[mod_cmds[id].timer].due >= now

\* the timer of the -b is armed, when the +b succeeds, for duration later
C12_Arms ==
    \A id \in BanCmds :
        (mod_cmds[id].timer = 0 /\ mod_cmds'[id].timer # 0) =>
            LET c == calls'[mod_cmds'[id].timer]
                d == mod_cmds[id].duration[1]
            IN  /\ c.key = <<mod_cmds'[id].mask, ModChannel, "b">>
                /\ c.fire = now + d
                /\ c.due = now + Max(MinDelay, d)

C13_VerbatimTarget ==
    \A id \in 1..Len(mod_cmds) :
        LET c == mod_cmds[id]
            given == (Has(c.target, "!") /\ Has(c.target, "@")) \/ StartsWith(c.target, "$")
        IN  /\ given =>
                /\ ReqsBy(id, "irc.whois") = {}
                /\ \A r \in ReqsBy(id, "ircop.mode") : mod_requests[r].param = c.target
                /\ c.timer # 0 => calls[c.timer].key[1] = c.target
            /\ ~given =>
                /\ \A r \in ReqsBy(id, "ircop.mode") :
                       /\ \E w \in ReqsBy(id, "irc.whois") : w < r
                       /\ mod_requests[r].param \in {whois_mask(h) : h \in WhoisHosts}

\* C14: when the kick request of a ban fails with OpFailed, the ban handler
\* recovers the failure and replies with the failure text; the failure does
\* not leave the handler unhandled.
C14_KickFailureReplied ==
    \A id \in BanCmds : \A k \in ReqsBy(id, "ircop.kick") :
        mod_requests[k].st = "OpFailed" =>
            /\ mod_cmds[id].pc # "unhandled"
            /\ \E i \in RepliesBy(id) : mod_replies[i].text = OpFailedText

\* the handlers whose irc.whois request ended with err
WhoisEnded(err) ==
    {id \in 1..Len(mod_cmds) : \E w \in ReqsBy(id, "irc.whois") : mod_requests[w].st = err}

\* one reply, the one of the failure; no mode request; no timer
C19_Replied ==
    /\ \A id \in WhoisEnded("NoSuchNick") \cup WhoisEnded("WhoisTimedout") :
          /\ Cardinality(RepliesBy(id)) = 1
          /\ ReqsBy(id, "ircop.mode") = {}
          /\ mod_cmds[id].timer = 0
          /\ mod_cmds[id].pc = "done"
    /\ \A id \in WhoisEnded("NoSuchNick") : \A i \in RepliesBy(id) :
          /\ mod_replies[i].text = IF mod_cmds[id].set THEN NoSuchNickSet ELSE NoSuchNickUnset
          /\ mod_replies[i].text # WhoisFailed
    /\ \A id \in WhoisEnded("WhoisTimedout") : \A i \in RepliesBy(id) :
          mod_replies[i].text = WhoisFailed

\* the step in which the WHOIS fails leaves the timers and the requests alone
C19_NoTimer ==
    \A w \in 1..Len(mod_requests) :
        (/\ mod_requests[w].name = "irc.whois"
         /\ mod_requests[w].st = "pending"
         /\ mod_requests'[w].st \in WhoisErrors)
        => /\ later_timers' = later_timers
           /\ calls' = calls
           /\ laters' = laters
           /\ saved' = saved
           /\ Len(mod_requests') = Len(mod_requests)
           /\ Len(mod_replies') = Len(mod_replies) + 1

\* C19: when nick resolution in _do_moderequest or _do_modederequest fails
\* with NoSuchNick or WhoisTimedout the caller gets exactly one reply (a
\* different one for each failure), no ircop.mode request is issued and no
\* timer is scheduled or replaced.
C19_WhoisFailureReplied == [](C19_Replied) /\ [][C19_NoTimer]_vars

C19_Witness ==
    \E id \in WhoisEnded("NoSuchNick") \cup WhoisEnded("WhoisTimedout") :
        /\ mod_cmds[id].duration # <<>>
        /\ RepliesBy(id) # {}

\* ====================================================== the topic history
\* C15: topic_stack is changed only by the topic-updated notification
\* handler; every edit command and undo leaves it unchanged and only issues a
\* topic-change request.
C15_OnlyNotifications ==
    [][topic_stack' # topic_stack => topic_events' = topic_events + 1]_vars

\* a step of an undo command that found two entries: it took them both off
C15_UndoPops ==
    /\ Undos' = Undos + 1
    /\ topic_events' = topic_events
    /\ \E c \in TopicChannels :
          /\ Len(topic_stack[c]) >= 2
          /\ topic_stack' = [topic_stack EXCEPT ![c] = SubSeq(@, 1, Len(@) - 2)]

\* a step of an edit command
C15_EditStep == Len(topic_deferreds') = Len(topic_deferreds) + 1

\* C15 as amended: topic_stack is changed only by the topic-updated
\* notification handler and by topic_undo, which takes the two newest entries
\* off; every edit command leaves it unchanged.
C15_NotificationsAndUndo ==
    /\ [][topic_stack' # topic_stack => (topic_events' = topic_events + 1 \/ C15_UndoPops)]_vars
    /\ [][C15_EditStep => topic_stack' = topic_stack]_vars

C15_Witness ==
    /\ \E i \in 1..Len(topic_requests) : topic_requests[i].by = 0
    /\ \E i \in 1..Len(topic_requests) : topic_requests[i].by # 0
    /\ \E c \in TopicChannels : topic_stack[c] = <<>> /\ topic_events = 2

\* what an undo in channel c does to a history of fewer than two entries, and
\* to one of n >= 2 entries
C16_Refused(c) ==
    /\ Len(topic_stack[c]) < 2
    /\ topic_replies' = Append(topic_replies, [by |-> 0, text |-> NoHistory])
    /\ topic_requests' = topic_requests
    /\ topic_stack' = topic_stack

C16_Undone(c) ==
    LET n == Len(topic_stack[c])
    IN  /\ n >= 2
        /\ topic_replies' = topic_replies
        /\ topic_requests' = Append(topic_requests,
                                    [channel |-> c, by |-> 0, topic |-> topic_stack[c][n - 1]])
        /\ Len(topic_stack'[c]) = n - 2
        /\ topic_stack' = [topic_stack EXCEPT ![c] = SubSeq(@, 1, n - 2)]

\* C16: topic_undo on a channel with fewer than two history entries replies
\* with the no-history message, issues no topic-change request and leaves the
\* history unchanged; with n >= 2 entries it issues exactly one topic-change
\* request carrying the entry that was second from the top and leaves n - 2
\* entries (none when n = 2).
C16_UndoTakesTwo ==
    [][Undos' = Undos + 1 => \E c \in TopicChannels : C16_Refused(c) \/ C16_Undone(c)]_vars

C16_Witness ==
    /\ \E i \in 1..Len(topic_replies) : topic_replies[i] = [by |-> 0, text |-> NoHistory]
    /\ \E i \in 1..Len(topic_requests) :
          /\ topic_requests[i].by = 0
          /\ topic_stack[topic_requests[i].channel] = <<>>
          /\ topic_events = 2

Top(stack) == stack[Len(stack)]

\* no two neighbours of a history are equal
C17_NoRepeat ==
    \A c \in TopicChannels : \A i \in 1..(Len(topic_stack[c]) - 1) :
        topic_stack[c][i] # topic_stack[c][i + 1]

\* a notification either leaves a history as it is or puts a new top on it
C17_PushesNewTop ==
    topic_events' = topic_events + 1 =>
        \A c \in TopicChannels :
            \/ topic_stack'[c] = topic_stack[c]
            \/ /\ topic_stack'[c] # <<>>
               /\ topic_stack[c] # <<>> => Top(topic_stack'[c]) # Top(topic_stack[c])

\* C17: after any sequence of topic-updated notifications and undo
\* operations no two consecutive entries of a channel's topic history are
\* equal; a notification whose topic equals the current top does not push.
C17_NoConsecutiveEqual == [](C17_NoRepeat) /\ [][C17_PushesNewTop]_vars

\* a history that was undone and pushed on again, after a notification that
\* did not push
C17_Witness ==
    \E c \in TopicChannels :
        /\ Len(topic_stack[c]) >= 2
        /\ \E i \in 1..Len(topic_requests) :
               topic_requests[i].by = 0 /\ topic_requests[i].channel = c
        /\ \A d \in TopicChannels \ {c} : topic_stack[d] = <<>>
        /\ topic_events > Len(topic_stack[c]) + 2 * Len(topic_requests)

\* a push onto a full history drops the oldest entry and keeps the others
C18_Evicts ==
    topic_events' = topic_events + 1 =>
        \A c \in TopicChannels :
            (Len(topic_stack[c]) = TopicCapacity /\ topic_stack'[c] # topic_stack[c]) =>
                /\ Len(topic_stack'[c]) = TopicCapacity
                /\ SubSeq(topic_stack'[c], 1, TopicCapacity - 1) = Tail(topic_stack[c])
                /\ Top(topic_stack'[c]) # Top(topic_stack[c])

\* C18: each channel's topic history has at most 10 entries; a push onto a
\* history of 10 entries removes the oldest entry and keeps the order of the
\* remaining nine with the new topic last.
C18_AtMostTen ==
    /\ [](\A c \in TopicChannels : Len(topic_stack[c]) <= TopicCapacity)
    /\ [][C18_Evicts]_vars

\* a full history after an eleventh notification
C18_Witness ==
    \E c \in TopicChannels :
        /\ Len(topic_stack[c]) = TopicCapacity
        /\ topic_events = TopicCapacity + 1
        /\ Undos = 0
        /\ \A d \in TopicChannels \ {c} : topic_stack[d] = <<>>

\* ===================================================== the edit commands
\* the deferred of command id fires its callback in this step; the topic it
\* is called with is then the newest entry of its channel's history
C20_Fires(id) ==
    /\ id > Len(topic_deferreds) \/ topic_deferreds[id].outcome = <<>>
    /\ topic_deferreds'[id].outcome = <<"callback">>

\* pos names no segment of the topic (for insert: no place between, before
\* or after its segments)
C20_OutOfRange(cmd, parts, pos) ==
    IF cmd = "insert" THEN pos > Len(parts) \/ pos < -Len(parts)
    ELSE ~InRange(parts, pos)

C20_Step ==
    \A id \in 1..Len(topic_deferreds') :
        LET d     == topic_deferreds'[id]
            parts == StripAll(SplitBar(Top(topic_stack'[d.channel])))
        IN  (/\ C20_Fires(id)
             /\ d.cmd \in {"insert", "replace", "remove"}
             /\ C20_OutOfRange(d.cmd, parts, d.pos))
            => /\ \E i \in 1..Len(topic_replies') :
                      topic_replies'[i] = [by |-> id, text |-> IndexReply(Len(parts))]
               /\ \A r \in 1..Len(topic_requests') : topic_requests'[r].by # id

\* C20: for insert, replace and remove a positional index outside the range
\* of the current topic's segments produces an index-out-of-range reply to the
\* caller and no topic-change request is issued.
C20_IndexErrorReplied == [][C20_Step]_vars

\* ============================================================== parse_time
MaxTimeLen == 5        \* length of the duration strings given to parse_time

\* the duration strings: all strings of digits, units and one other character
\* up to the length bound, and some with the other digits and units
TimeStrs ==
    LET chars == {"0", "1", "3", "h", "m", "x"}
        more  == { <<"2", "d">>, <<"1", "w">>, <<"2", "s">>,
                   <<"2", "d", " ", "2", "s">> }
    IN  UNION {[1..n -> chars] : n \in 0..MaxTimeLen} \cup more

\* \d
DigitChars == {"0", "1", "2", "3", "4", "5", "6", "7", "8", "9"}
\* [dhmsw]
UnitChars == {"d", "h", "m", "s", "w"}

Digit(c) ==
    CASE c = "0" -> 0 [] c = "1" -> 1 [] c = "2" -> 2 [] c = "3" -> 3 [] c = "4" -> 4
      [] c = "5" -> 5 [] c = "6" -> 6 [] c = "7" -> 7 [] c = "8" -> 8 [] c = "9" -> 9

\* int(t) of a string of digits
RECURSIVE int(_)
int(t) ==
    IF t = <<>> THEN 0
    ELSE 10 * int(SubSeq(t, 1, Len(t) - 1)) + Digit(t[Len(t)])

\* the multipliers table of parse_time
multipliers(unit) ==
    CASE unit = "s" -> 1
      [] unit = "m" -> 60
      [] unit = "h" -> 60 * 60
      [] unit = "d" -> 60 * 60 * 24
      [] unit = "w" -> 60 * 60 * 24 * 7

\* the position after the digits that \d+ takes, greedily, from position i
RECURSIVE DigitsEnd(_, _)
DigitsEnd(s, i) ==
    IF i <= Len(s) /\ s[i] \in DigitChars THEN DigitsEnd(s, i + 1) ELSE i

\* the last position of the match of \d+[dhmsw] that starts at i, 0 for no
\* match: giving digits back leaves a digit where the unit must be
match_at(s, i) ==
    LET j == DigitsEnd(s, i)
    IN  IF j > i /\ j <= Len(s) /\ s[j] \in UnitChars THEN j ELSE 0

\* re.findall(duration_match, timestr): the matches from left to right, each
\* search starting after the previous match
RECURSIVE findall(_, _)
findall(s, i) ==
    IF i > Len(s) THEN <<>>
    ELSE LET e == match_at(s, i)
         IN  IF e > 0 THEN <<SubSeq(s, i, e)>> \o findall(s, e + 1)
             ELSE findall(s, i + 1)

\* the loop of parse_time over the components
RECURSIVE add_components(_, _)
add_components(components, i) ==
    IF i > Len(components) THEN 0
    ELSE LET component == components[i]
             t    == SubSeq(component, 1, Len(component) - 1)
             unit == component[Len(component)]
         IN  int(t) * multipliers(unit) + add_components(components, i + 1)

\* parse_time with re.search in place of re.findall: the first component only
parse_time_first(timestr) ==
    LET found == findall(timestr, 1)
    IN  add_components(IF found = <<>> THEN <<>> ELSE <<found[1]>>, 1)

parse_time(timestr) == add_components(findall(timestr, 1), 1)

otherVars == <<now, adminVars, boot, authVars, topicVars, modVars>>

\* a call parse_time(timestr)
ParseTime ==
    /\ helper_call.fn = "parse_time"
    /\ ~helper_call.done
    /\ helper_call' = [helper_call EXCEPT !.done = TRUE,
                                          !.out = parse_time(helper_call.arg)]
    /\ UNCHANGED otherVars

InitParse ==
    /\ InitIdle
    /\ helper_call \in {[fn |-> "parse_time", arg |-> s, done |-> FALSE, out |-> 0] :
                           s \in TimeStrs}

SpecParse == InitParse /\ [][ParseTime]_vars

\* ------------------------------------------------------------------- C21
\* the <integer><unit> components of s: a whole run of digits followed by a
\* unit character, as <<first digit, unit position>>
Components(s) ==
    {<<i, j>> \in (1..Len(s)) \X (1..Len(s)) :
        /\ i < j
        /\ \A k \in i..(j - 1) : s[k] \in DigitChars
        /\ (i > 1 => s[i - 1] \notin DigitChars)
        /\ s[j] \in UnitChars}

Seconds(unit) ==
    CASE unit = "s" -> 1
      [] unit = "m" -> 60
      [] unit = "h" -> 3600
      [] unit = "d" -> 86400
      [] unit = "w" -> 604800

RECURSIVE Decimal(_, _, _)
Decimal(s, i, j) == IF i > j THEN 0 ELSE Decimal(s, i, j - 1) * 10 + Digit(s[j])

RECURSIVE ComponentSum(_, _)
ComponentSum(s, cs) ==
    IF cs = {} THEN 0
    ELSE LET c == CHOOSE x \in cs : TRUE
         IN  Decimal(s, c[1], c[2] - 1) * Seconds(s[c[2]]) + ComponentSum(s, cs \ {c})

\* C21: parse_time returns the sum, over the <integer><unit> components of
\* its argument, of integer times the unit's seconds; everything else adds 0.
\* "1h30m" gives 5400, "2d" gives 172800 and "" gives 0.
C21_ParseTime ==
    (helper_call.fn = "parse_time" /\ helper_call.done) =>
        /\ helper_call.out = ComponentSum(helper_call.arg, Components(helper_call.arg))
        /\ (helper_call.arg = <<"1", "h", "3", "0", "m">> => helper_call.out = 5400)
        /\ (helper_call.arg = <<"2", "d">> => helper_call.out = 172800)
        /\ (helper_call.arg = <<>> => helper_call.out = 0)

C21_Witness ==
    /\ helper_call.fn = "parse_time"
    /\ helper_call.done
    /\ helper_call.arg = <<"1", "h", "3", "0", "m">>
    /\ helper_call.out = 5400

\* ------------------------------------------------------------------- C22
\* C22: a _get_permissions call for a hostmask that is in authd_users returns
\* a deferred that already holds the cached account's permissions, and sends
\* no irc.do_whois, arms no timeout and leaves the waiting map as it was.
C22_CachedIsImmediate ==
    [][ \A h \in AuthHosts :
          ( /\ h \in DOMAIN authd_users
            /\ Len(auth_deferreds') = Len(auth_deferreds) + 1
            /\ auth_deferreds'[Len(auth_deferreds')].key = h )
          => /\ auth_deferreds'[Len(auth_deferreds')].results =
                    <<[v |-> Permissions(authd_users[h]), by |-> "cache"]>>
             /\ whois_sent' = whois_sent
             /\ auth_calls' = auth_calls
             /\ waiting' = waiting ]_vars

\* a call answered from the cache while the waiting map holds a key for the
\* hostmask (left by a handler that read the defaultdict)
C22_Witness ==
    \E i \in 1..Len(auth_deferreds) :
        /\ auth_deferreds[i].cached
        /\ Len(auth_deferreds[i].results) = 1
        /\ auth_deferreds[i].key \in DOMAIN waiting

\* ------------------------------------------------------------------- C23
\* the timeout has resolved the waiters of hostmask h and removed their set
C23_TimedOut(h) ==
    /\ h \notin DOMAIN waiting
    /\ \E d \in 1..Len(auth_deferreds) :
          /\ auth_deferreds[d].key = h
          /\ auth_deferreds[d].results # <<>>
          /\ auth_deferreds[d].results[1].by = "timeout"

\* C23: a 330 reply correlated to a hostmask whose waiters the timeout has
\* already resolved and cleared fires no waiter, and after it the waiting map
\* holds no waiter set for that hostmask.
C23_LateReplyNoOp ==
    [][ \A n \in Nicks :
          ( /\ n \in DOMAIN nick_to_hostmask
            /\ n \notin DOMAIN nick_to_hostmask'
            /\ C23_TimedOut(nick_to_hostmask[n]) )
          => /\ auth_deferreds' = auth_deferreds
             /\ nick_to_hostmask[n] \notin DOMAIN waiting' ]_vars

\* ------------------------------------------------------------------- C24
\* what a notification of newtopic for channel does to the waiters
C24_Resolved(channel, newtopic) ==
    /\ topic_stack'[channel] # <<>>
    /\ Top(topic_stack'[channel]) = newtopic
    /\ topic_waiters'[channel] = {}
    /\ \A d \in topic_waiters[channel] :
          /\ topic_deferreds'[d].outcome = <<"callback">>
          /\ topic_deferreds[d].timer # 0 =>
                topic_calls'[topic_deferreds[d].timer].st = "cancelled"
    /\ \A c \in TopicChannels \ {channel} : topic_waiters'[c] = topic_waiters[c]
    /\ \A d \in 1..Len(topic_deferreds) :
          d \notin topic_waiters[channel] => topic_deferreds'[d] = topic_deferreds[d]

\* C24: each topic-updated notification for a channel, whether or not the
\* topic differs from the top of the history, gives the new topic once to
\* every waiter of the channel, removes the channel's waiter set, cancels the
\* fetch timeout, and leaves the waiters of the other channels alone.
C24_NotificationResolvesAll ==
    [][ topic_events' = topic_events + 1 =>
          \E c \in TopicChannels, t \in Topics : C24_Resolved(c, t) ]_vars

\* ------------------------------------------------------------------- C30
\* a reload() of the running plugin while a timer is pending
C30_ReloadStep ==
    /\ boot.phase = "running"
    /\ boot'.phase = "running"
    /\ boot'.ops = boot.ops + 1
    /\ \E k \in DOMAIN later_timers : Active(calls, later_timers[k])

\* a start() that follows a stop()
C30_RestartStep ==
    /\ boot.phase = "stopped"
    /\ boot'.ops = boot.ops + 1

\* C30: reload() of a started IRCAdmin with pending timers, and start() after
\* stop(), end without an exception (so no timer is cancelled twice), and
\* leave one live timer in later_timers for every triple of config['laters']
\* and no cancelled timer in later_timers.
C30_ReloadAndRestart ==
    [][ (C30_ReloadStep \/ C30_RestartStep) =>
          /\ ~boot'.raised
          /\ \A e \in 1..Len(laters') :
                LET key == <<laters'[e][2], laters'[e][3], laters'[e][4]>>
                IN  /\ key \in DOMAIN later_timers'
                    /\ Active(calls', later_timers'[key])
          /\ \A k \in DOMAIN later_timers' : calls'[later_timers'[k]].st # "cancelled" ]_vars

\* ------------------------------------------------------------------- C26
\* C26: while the started plugin runs, between any two handlers, the triples
\* with a live timer in later_timers are the triples of config['laters'],
\* each triple is listed once, and the saved config is the list.
C26_TimersMatchConfig ==
    Running =>
        /\ \A key \in Triples :
              (key \in DOMAIN later_timers /\ Active(calls, later_timers[key]))
                  <=> HasEntry(laters, key)
        /\ DistinctTriples(laters)
        /\ saved = laters

\* ------------------------------------------------------------------- C25
\* the triple has a timer in later_timers that is still scheduled
C25_Pending(key) == key \in DOMAIN later_timers /\ Active(calls, later_timers[key])

\* C25: a mode-change notification with set == True, or with set == False
\* for a triple without a pending timer, leaves later_timers, config['laters']
\* and the armed timers as they are; and after a notification with
\* set == False the triple is neither in later_timers nor in config['laters'].
C25_ModeChangeFrame ==
    [][ \A b \in BOOLEAN, key \in Triples :
          OnModeChange(b, key) =>
              /\ (b \/ ~C25_Pending(key)) =>
                    (later_timers' = later_timers /\ laters' = laters /\ calls' = calls)
              /\ ~b => (key \notin DOMAIN later_timers' /\ ~HasEntry(laters', key)) ]_vars

\* ------------------------------------------------------------------- C27
\* the step has armed a timer for key that is due max(1, delay) after now,
\* later than now, and has written now + delay to config['laters']
C27_Armed(delay, key) ==
    \E i \in (Len(calls) + 1)..Len(calls') :
        /\ calls'[i].key = key
        /\ Active(calls', i)
        /\ later_timers'[key] = i
        /\ calls'[i].due = now + Max(1, delay)
        /\ calls'[i].due > now
        /\ \E e \in 1..Len(laters') : laters'[e] = <<now + delay, key[1], key[2], key[3]>>
        /\ \E e \in 1..Len(saved') : saved'[e] = <<now + delay, key[1], key[2], key[3]>>

\* C27: for every delay given to _set_timer, zero and negative ones included
\* (start() passes fireTime - now), the callback is due max(1, delay) after
\* the call, runs then and never in the tick of the call, and the fire time
\* written to config['laters'] is now + delay.
C27_ClampedDelay ==
    [][ /\ \A d \in Delays, key \in Triples : SetTimer(d, key) => C27_Armed(d, key)
        /\ Start => \A e \in 1..Len(laters) :
                        C27_Armed(laters[e][1] - now, KeyOf(laters[e]))
        /\ \A i \in 1..Len(calls) :
              (Active(calls, i) /\ calls'[i].st = "called") => now = calls[i].due ]_vars

\* a timer armed with a negative delay: due one unit from now, its persisted
\* fire time in the past
C27_Witness ==
    \E i \in 1..Len(calls) :
        /\ Active(calls, i)
        /\ calls[i].due = now + 1
        /\ calls[i].fire < now
        /\ \E e \in 1..Len(laters) :
              KeyOf(laters[e]) = calls[i].key /\ laters[e][1] = calls[i].fire

\* ------------------------------------------------------------------- C28
\* C28: when the "-mode" request that unquiet or unban issues at once (no
\* delay given) fails with OpFailed, the caller gets a reply with the failure
\* text, and the request is not issued again.
C28_UnsetFailureReplied ==
    \A id \in 1..Len(mod_cmds) :
        (~mod_cmds[id].set /\ mod_cmds[id].duration = <<>>) =>
            \A r \in ReqsBy(id, "ircop.mode") :
                (mod_requests[r].sign = "-" /\ mod_requests[r].st = "OpFailed") =>
                    /\ \E i \in RepliesBy(id) : mod_replies[i].text = OpFailedText
                    /\ Cardinality(ReqsBy(id, "ircop.mode")) = 1

\* ===================================================== topic split/rejoin
MaxTopicLen == 6       \* length of the topics given to the split and rejoin

\* the topics: all strings of a letter, the space and the bar up to the bound
TopicStrs == UNION {[1..n -> {"a", " ", "|"}] : n \in 0..MaxTopicLen}

\* the split and join of the edit callbacks with no edit in between without
\* the x.strip() of the parts
split_rejoin_unstripped(cmd, currenttopic) ==
    IF cmd = "append" THEN JoinBar(SplitBar(Strip(currenttopic)))
    ELSE JoinBar(SplitBar(currenttopic))

\* " | ".join([x.strip() for x in currenttopic.split("|")]), the split and
\* the join of the edit callbacks with no edit in between; topicappend strips
\* the topic first
split_rejoin(cmd, currenttopic) ==
    IF cmd = "append" THEN JoinBar(StripAll(SplitBar(Strip(currenttopic))))
    ELSE JoinBar(StripAll(SplitBar(currenttopic)))

\* a topic is split and rejoined as the callback of command cmd does
SplitRejoin ==
    /\ helper_call.fn = "split_rejoin"
    /\ ~helper_call.done
    /\ helper_call' = [helper_call EXCEPT
                          !.done = TRUE,
                          !.out = split_rejoin(helper_call.arg.cmd, helper_call.arg.topic)]
    /\ UNCHANGED otherVars

InitRejoin ==
    /\ InitIdle
    /\ helper_call \in {[fn |-> "split_rejoin", arg |-> [cmd |-> c, topic |-> t],
                         done |-> FALSE, out |-> <<>>] : c \in EditCmds, t \in TopicStrs}

SpecRejoin == InitRejoin /\ [][SplitRejoin]_vars

\* ------------------------------------------------------------ all actions
Next ==
    \/ NextAdmin \/ NextLife \/ NextAuth \/ NextTopic \/ NextMod \/ NextHistory \/ NextEdit
    \/ NextUndo \/ NextUnset
    \/ ParseTime
    \/ SplitRejoin

Spec == Init /\ [][Next]_vars

\* ------------------------------------------------------------------- C29
\* the segments of a topic: what lies between its " | " separators
RECURSIVE Segments(_)
Segments(str) ==
    LET at(i) == str[i] = " " /\ str[i + 1] = "|" /\ str[i + 2] = " "
        seps  == {i \in 1..(Len(str) - 2) : at(i)}
    IN  IF seps = {} THEN <<str>>
        ELSE LET k == CHOOSE i \in seps : \A j \in seps : i <= j
             IN  <<SubSeq(str, 1, k - 1)>> \o Segments(SubSeq(str, k + 3, Len(str)))

\* the topic's segments are separated by " | ": no segment holds a bar
C29_Separated(str) ==
    \A n \in 1..Len(Segments(str)) : \A i \in 1..Len(Segments(str)[n]) :
        Segments(str)[n][i] # "|"

\* the topic with the whitespace around each segment trimmed
C29_Trimmed(str) == JoinBar([n \in 1..Len(Segments(str)) |-> Strip(Segments(str)[n])])

\* C29: for a topic whose segments are separated by " | ", the split into
\* trimmed segments followed by the join with " | ", as every edit command
\* does them, gives the topic back with the whitespace around each segment
\* trimmed.
C29_RoundTrip ==
    (helper_call.fn = "split_rejoin" /\ helper_call.done
         /\ C29_Separated(helper_call.arg.topic)) =>
        helper_call.out = C29_Trimmed(helper_call.arg.topic)

\* a topic of two segments with whitespace to trim, split and rejoined
C29_Witness ==
    /\ helper_call.fn = "split_rejoin"
    /\ helper_call.done
    /\ helper_call.arg.topic = <<"a", " ", " ", "|", " ", "a">>
    /\ helper_call.out = <<"a", " ", "|", " ", "a">>

\* ------------------------------------------------------------------- C31
\* C31: a channel's history, when it is not empty, has on top the topic of
\* the channel's latest topic-updated notification, which is what
\* _get_current_topic returns; also after an undo whose topic-change request
\* has failed or is not confirmed yet.
C31_TopIsCurrent ==
    \A c \in TopicChannels :
        topic_stack[c] # <<>> => topic_current[c] = <<Top(topic_stack[c])>>

\* ------------------------------------------------------------------- C32
\* every waiter set that is not empty has a timeout armed for its key
C32_Armed ==
    /\ \A h \in AuthHosts :
          WaitingGet(waiting, h) # {} =>
              \E i \in 1..Len(auth_calls) :
                  auth_calls[i].key = h /\ Active(auth_calls, i) /\ auth_calls[i].due >= now
    /\ \A c \in TopicChannels :
          topic_waiters[c] # {} =>
              \E i \in 1..Len(topic_calls) :
                  topic_calls[i].key = c /\ Active(topic_calls, i) /\ topic_calls[i].due >= now

\* the timeout that runs resolves every waiter of its key
C32_Resolves ==
    /\ \A i \in 1..Len(auth_calls) :
          (Active(auth_calls, i) /\ auth_calls'[i].st = "called") =>
              /\ WaitingGet(waiting', auth_calls[i].key) = {}
              /\ \A d \in WaitingGet(waiting, auth_calls[i].key) :
                    auth_deferreds'[d].results # <<>>
    /\ \A i \in 1..Len(topic_calls) :
          (Active(topic_calls, i) /\ topic_calls'[i].st = "called") =>
              /\ topic_waiters'[topic_calls[i].key] = {}
              /\ \A d \in topic_waiters[topic_calls[i].key] :
                    topic_deferreds'[d].outcome # <<>>

\* C32: whenever Auth.waiting[hostmask] or IRCTopic.topic_waiters[channel] is
\* not empty a timeout is armed for it, and the timeout resolves the whole
\* set when it runs: a caller that attached to the set is resolved within the
\* bound counted from the first caller's request (5 for the WHOIS, 10 for the
\* topic) also when no response arrives.
C32_EveryWaiterResolved == [](C32_Armed) /\ [][C32_Resolves]_vars

\* ------------------------------------------------------------------- C33
\* C33: stop() leaves config['laters'] as it is, and from stop() until the
\* next start() no reversal timer runs and the registry issues no "-mode"
\* request.
C33_QuietAfterStop ==
    [][ /\ (boot.phase = "running" /\ boot'.phase = "stopped") => laters' = laters
        /\ boot.phase = "stopped" =>
              /\ mode_requests' = mode_requests
              /\ \A i \in 1..Len(calls) :
                    Active(calls, i) => calls'[i].st # "called" ]_vars

\* ------------------------------------------------------------------- C34
\* the unban and unquiet commands given with a delay
C34_Delayed == {id \in 1..Len(mod_cmds) : ~mod_cmds[id].set /\ mod_cmds[id].duration # <<>>}

\* such a command never issues a mode request of its own; once its mask is
\* known it has replied once and its timer is the one of its triple, which
\* issues one "-mode" for the triple when it runs and none before
C34_Scheduled ==
    \A id \in C34_Delayed :
        /\ ReqsBy(id, "ircop.mode") = {}
        /\ mod_cmds[id].timer # 0 =>
              LET n   == mod_cmds[id].timer
                  key == <<mod_cmds[id].mask, ModChannel, mod_cmds[id].mode>>
              IN  /\ \A i \in RepliesBy(id) : mod_replies[i].text = ShallBeDone
                  /\ Cardinality(RepliesBy(id)) = 1
                  /\ calls[n].key = key
                  /\ Cardinality(MinusReqs(id)) = (IF calls[n].st = "called" THEN 1 ELSE 0)
                  /\ \A q \in MinusReqs(id) :
                        /\ mode_requests[q].mode = "-"
                        /\ <<mode_requests[q].param, mode_requests[q].channel,
                             mode_requests[q].letter>> = key

\* the step in which the command schedules: no mode request is issued, every
\* timer the triple had is cancelled and the new one is due after the delay
C34_Replaces ==
    \A id \in 1..Len(mod_cmds') :
        ( /\ ~mod_cmds'[id].set
          /\ mod_cmds'[id].duration # <<>>
          /\ mod_cmds'[id].timer # 0
          /\ (id > Len(mod_cmds) \/ mod_cmds[id].timer = 0) ) =>
            LET n   == mod_cmds'[id].timer
                d   == mod_cmds'[id].duration[1]
                key == <<mod_cmds'[id].mask, ModChannel, mod_cmds'[id].mode>>
            IN  /\ mode_requests' = mode_requests
                /\ n = Len(calls) + 1
                /\ Len(calls') = n
                /\ calls'[n] = [key |-> key, fire |-> now + d,
                                due |-> now + Max(MinDelay, d), st |-> "pending"]
                /\ key \in DOMAIN later_timers'
                /\ later_timers'[key] = n
                /\ \A j \in 1..Len(calls) : calls[j].key = key => ~Active(calls', j)

\* a "-mode" request is issued only by a timer that is still scheduled, one
\* per run, at the time the timer is due
C34_Fires ==
    /\ Len(mode_requests') > Len(mode_requests) =>
          /\ Len(mode_requests') = Len(mode_requests) + 1
          /\ Active(calls, mode_requests'[Len(mode_requests')].by)
    /\ \A i \in 1..Len(calls) :
          (Active(calls, i) /\ calls'[i].st = "called") =>
              /\ now = calls[i].due
              /\ Len(mode_requests') = Len(mode_requests) + 1
              /\ mode_requests'[Len(mode_requests')].by = i

\* C34: unquiet or unban with a delay issues no mode request at the time of
\* the command: it only schedules the "-mode" reversal for the resolved mask
\* after the delay and replies once; a timer that already exists for the same
\* (mask, channel, mode) is replaced, so exactly one "-mode" request is later
\* issued for that triple, at the new delay.
C34_DelayedUnsetSchedulesOnce ==
    [](C34_Scheduled) /\ [][C34_Replaces /\ C34_Fires]_vars

\* an unban or unquiet with a delay has replaced the timer its triple had, its
\* own timer has run and issued the "-mode", and the time the replaced timer
\* was due at has passed
C34_Witness ==
    \E id \in C34_Delayed :
        /\ mod_cmds[id].timer # 0
        /\ calls[mod_cmds[id].timer].st = "called"
        /\ Cardinality(MinusReqs(id)) = 1
        /\ \E j \in 1..Len(calls) :
              /\ j < mod_cmds[id].timer
              /\ calls[j].key = calls[mod_cmds[id].timer].key
              /\ calls[j].st = "cancelled"
        /\ Cardinality({q \in 1..Len(mode_requests) :
                           <<mode_requests[q].param, mode_requests[q].channel,
                             mode_requests[q].letter>> = calls[mod_cmds[id].timer].key}) = 1
        /\ \A f \in PersistTimes : now >= Max(MinDelay, f)
====
